---- MODULE Spec2Model ----
(***************************************************************************)
(* The authoritative game server of tarnation                              *)
(* (internal/networking/server.go, the GameServer with rooms, enemies,     *)
(* threat and rage) as a state machine: the entity store behind its        *)
(* sync.RWMutex, the bounded broadcast channel and its single fan-out      *)
(* task, the per-connection handlers, the spawn task, the AI ticker and    *)
(* the rage-decay ticker.                                                  *)
(*                                                                         *)
(* Granularity.  A critical section of the store mutex that holds no       *)
(* blocking operation is one step (nothing else can observe its inside).   *)
(* A channel send (s.broadcast <- m) blocks while the channel is full, so  *)
(* every send is a step of its own: a handler first computes its critical  *)
(* section and the messages it sends (outbox), then sends them one by one, *)
(* keeping the lock where the code keeps it.  A connection write is two    *)
(* steps (ConnMutex.Lock + WriteJSON begins; WriteJSON returns +           *)
(* ConnMutex.Unlock) so that a stalled write is a state.  Where the code   *)
(* sends in the middle of an exclusive section (handleCombat sends the     *)
(* player update before it adds threat, attemptEnemyAttack before it marks *)
(* the player dead) the model makes the section's writes first and sends   *)
(* after: the mutex is held throughout, so no task sees the difference,    *)
(* and each message carries the values the code marshals at its send.      *)
(*                                                                         *)
(* Numbers.  Positions are whole pixels.  Threat (float64 in the code) is  *)
(* kept in tenths, so the proximity increment 0.1 is 1 and a damage of 5   *)
(* is 50.  Time since an enemy's last attack is kept in whole seconds and  *)
(* saturates just above the weapon delay.                                  *)
(***************************************************************************)
EXTENDS Integers, Sequences, FiniteSets, TLC

\* ---------------------------------------------------------------- bounds
MaxConns == 2        \* connections ever opened (each gets a fresh uuid)
MaxCmds == 1         \* Spec: inbound messages a client sends
MaxTicks == 1        \* Spec: ticks of the AI ticker
SpawnBound == 1      \* Spec: enemies a spawn task creates (3 in the code)
QueueCap == 1        \* capacity of the broadcast channel (256 in the code)

\* ------------------------------------------------------ program constants
NoPlayer == 0              \* the empty string as a player ID
ThreatScale == 10          \* a damage of 1, in units of the proximity increment
RangeThreat == 1           \* 0.1 per tick
AggroRange == 100
EntitySize == 10
MoveSpeed == 2
RangeFactor == 25
EnemyWeaponRange == 1
EnemyWeaponDamage == 10
EnemyWeaponDelay == 2      \* seconds
EnemyHealth == 50
NumInitialEnemies == 3
PlayerHealth == 100
PlayerMaxMana == 100
PlayerWeaponDamage == 5
NoWeapon == 0               \* attacker.Weapon == nil
UnarmedDamage == 1
SpawnX == 400
SpawnY == 300
AttackRage == 5
HitRage == 3
CritCost == 30
CritBonus == 3
RageDecay == 2

Conns == 1..MaxConns

\* ------------------------------------------------------------------ tasks
H(c) == <<"conn", c>>      \* HandleWebSocket, then handlePlayerConnection
Sp(c) == <<"spawn", c>>    \* the spawnInitialEnemies goroutine started by c
BC == <<"broadcast", 0>>
AI == <<"ai", 0>>
RG == <<"rage", 0>>
NoTask == <<"none", 0>>
Tasks == {H(c) : c \in Conns} \cup {Sp(c) : c \in Conns} \cup {BC, AI, RG}

VARIABLES
  players,    \* s.players: player ID -> Player
  enemies,    \* s.enemies: enemy ID -> Enemy
  writer,     \* the task holding s.mutex exclusively, or NoTask
  readers,    \* the tasks holding s.mutex shared
  queue,      \* s.broadcast, the buffered channel
  pc,         \* where each task is
  outbox,     \* per task: the messages its current section has yet to send
  todo,       \* per task: what its current range loop has yet to visit
  bcMsg,      \* the message the broadcaster received and is fanning out
  writing,    \* per task: the connection it is inside WriteJSON on, or 0
  connMutex,  \* per connection: the task holding player.ConnMutex
  conn,       \* per connection: "none", "open" or "closed"
  isFirst,    \* per connection: HandleWebSocket's isFirstPlayer
  spI,        \* per spawn task: the loop index i
  cmds,       \* per connection: inbound messages its client has yet to send
  ticks,      \* ticks the AI ticker has yet to deliver
  crashed,    \* the runtime aborted on a detected concurrent map access
  inbox,      \* per connection: the messages handed to it, in order
  watch,      \* the message types the inboxes keep (fixed by Init)
  capacity,   \* the capacity s.broadcast was made with (fixed by Init)
  probe       \* a call of the movement resolver: its arguments and results

vars == <<players, enemies, writer, readers, queue, pc, outbox, todo, bcMsg,
          writing, connMutex, conn, isFirst, spI, cmds, ticks, crashed, inbox,
          watch, capacity, probe>>

\* ------------------------------------------------------------- arithmetic
Min(a, b) == IF a < b THEN a ELSE b
Abs(a) == IF a < 0 THEN -a ELSE a
Sign(a) == IF a < 0 THEN -1 ELSE IF a > 0 THEN 1 ELSE 0

\* A client that goes on sending, a ticker that goes on ticking: the read loop
\* and the ticker loops have no bound of their own.
Unlimited == -1
Spend(left) == IF left = Unlimited THEN left ELSE left - 1

\* floor of the square root
RECURSIVE ISqrtIn(_, _, _)
ISqrtIn(n, lo, hi) ==
  IF lo = hi THEN lo
  ELSE LET mid == (lo + hi + 1) \div 2
       IN IF mid * mid <= n THEN ISqrtIn(n, mid, hi) ELSE ISqrtIn(n, lo, mid - 1)
ISqrt(n) == ISqrtIn(n, 0, Min(n, 32767))

\* ---------------------------------------------------------------- room
Wall(x, y, w, h) == [x |-> x, y |-> y, width |-> w, height |-> h]

CreateDungeonRoom ==
  << Wall(0, 0, 1200, 20), Wall(0, 880, 1200, 20),
     Wall(0, 0, 20, 900), Wall(1180, 0, 20, 900) >>

\* a collision test that finds no wall anywhere
NoCollision(x, y, walls) == FALSE

CheckWallCollision(x, y, walls) ==
  \E i \in 1..Len(walls) :
    /\ x - EntitySize < walls[i].x + walls[i].width
    /\ x + EntitySize > walls[i].x
    /\ y - EntitySize < walls[i].y + walls[i].height
    /\ y + EntitySize > walls[i].y

\* a resolver that takes the desired position as it comes
AcceptDesired(oldX, oldY, newX, newY, walls) == <<newX, newY>>

\* a resolver that tries the vertical slide before the horizontal one
SlideVerticalFirst(oldX, oldY, newX, newY, walls) ==
  IF ~CheckWallCollision(newX, newY, walls) THEN <<newX, newY>>
  ELSE IF ~CheckWallCollision(oldX, newY, walls) THEN <<oldX, newY>>
  ELSE IF ~CheckWallCollision(newX, oldY, walls) THEN <<newX, oldY>>
  ELSE <<oldX, oldY>>

CheckWallCollisionWithSliding(oldX, oldY, newX, newY, walls) ==
  IF ~CheckWallCollision(newX, newY, walls) THEN <<newX, newY>>
  ELSE IF ~CheckWallCollision(newX, oldY, walls) THEN <<newX, oldY>>
  ELSE IF ~CheckWallCollision(oldX, newY, walls) THEN <<oldX, newY>>
  ELSE <<oldX, oldY>>

\* ------------------------------------------------- the client's resolver
\* GameClient.checkWallCollision and GameClient.checkWallCollisionWithSliding,
\* the copies the client predicts its own movement with
ClientEntitySize == 10

checkWallCollision(x, y, walls) ==
  \E i \in 1..Len(walls) :
    /\ x - ClientEntitySize < walls[i].x + walls[i].width
    /\ x + ClientEntitySize > walls[i].x
    /\ y - ClientEntitySize < walls[i].y + walls[i].height
    /\ y + ClientEntitySize > walls[i].y

\* a client that gives up where the server would slide
predictWithoutSliding(oldX, oldY, newX, newY, walls) ==
  IF ~checkWallCollision(newX, newY, walls) THEN <<newX, newY>> ELSE <<oldX, oldY>>

checkWallCollisionWithSliding(oldX, oldY, newX, newY, walls) ==
  IF ~checkWallCollision(newX, newY, walls) THEN <<newX, newY>>
  ELSE IF ~checkWallCollision(newX, oldY, walls) THEN <<newX, oldY>>
  ELSE IF ~checkWallCollision(oldX, newY, walls) THEN <<oldX, newY>>
  ELSE <<oldX, oldY>>

\* --------------------------------------------------------------- entities
NewPlayer ==
  [x |-> SpawnX, y |-> SpawnY, class |-> "warrior", health |-> PlayerHealth,
   mana |-> 0, dead |-> FALSE, weapon |-> PlayerWeaponDamage]

EnemyId(c, i) == NumInitialEnemies * (c - 1) + i + 1

Saturated == EnemyWeaponDelay + 1

NewEnemy(i) ==
  [x |-> 200 + i * 300, y |-> 200 + i * 150, health |-> EnemyHealth,
   damage |-> EnemyWeaponDamage, target |-> NoPlayer, threat |-> <<>>,
   since |-> Saturated]

\* ---------------------------------------------------------------- messages
Msg(type, pid, id, health, mana, x, y, dead) ==
  [type |-> type, pid |-> pid, id |-> id, health |-> health, mana |-> mana,
   x |-> x, y |-> y, dead |-> dead]

NoMsg == Msg("none", 0, 0, 0, 0, 0, 0, FALSE)

PlayerMsg(type, p, pl) == Msg(type, p, 0, pl.health, pl.mana, pl.x, pl.y, pl.dead)
EnemySnapshot(type, e, en) == Msg(type, NoPlayer, e, en.health, 0, en.x, en.y, FALSE)
DeathMarker(e) == Msg("enemy_update", NoPlayer, e, 0, 0, 0, 0, TRUE)
RoomMsg == Msg("room_data", NoPlayer, 0, 0, 0, 0, 0, FALSE)

\* no call of the movement resolver is under way
NoProbe == <<>>

Init ==
  /\ players = <<>>
  /\ enemies = <<>>
  /\ writer = NoTask
  /\ readers = {}
  /\ queue = <<>>
  /\ pc = [t \in Tasks |->
             IF t = BC THEN "recv"
             ELSE IF t \in {AI, RG} THEN "tick"
             ELSE IF t[1] = "conn" THEN "idle" ELSE "off"]
  /\ outbox = [t \in Tasks |-> <<>>]
  /\ todo = [t \in Tasks |-> {}]
  /\ bcMsg = NoMsg
  /\ writing = [t \in Tasks |-> 0]
  /\ connMutex = [c \in Conns |-> NoTask]
  /\ conn = [c \in Conns |-> "none"]
  /\ isFirst = [c \in Conns |-> FALSE]
  /\ spI = [c \in Conns |-> 0]
  /\ cmds = [c \in Conns |-> MaxCmds]
  /\ ticks = MaxTicks
  /\ crashed = FALSE
  /\ inbox = [c \in Conns |-> <<>>]
  /\ watch = {}
  /\ capacity = QueueCap
  /\ probe = NoProbe

\* ------------------------------------------------------------ primitives
\* s.mutex.Lock() returns when no task holds the mutex in any mode;
\* s.mutex.RLock() returns when no task holds it exclusively.
CanLock == writer = NoTask /\ readers = {}
CanRLock == writer = NoTask

\* a ConnMutex.Lock() that does not wait
ConnMutexNotTaken(c) == TRUE

\* player.ConnMutex.Lock() returns when no task holds that mutex.
ConnMutexFree(c) == connMutex[c] = NoTask

\* what an inbox keeps of a write: the message and the kind of task it is from
Logged(t, m) == [msg |-> m, via |-> t[1]]

\* ConnMutex.Lock(); conn.WriteJSON(m) begins: m is handed to the connection
BeginWrite(t, c, m) ==
  /\ writing[t] = 0
  /\ ConnMutexFree(c)
  /\ connMutex' = [connMutex EXCEPT ![c] = t]
  /\ writing' = [writing EXCEPT ![t] = c]
  /\ inbox' = IF m.type \in watch /\ conn[c] = "open"
                THEN [inbox EXCEPT ![c] = Append(@, Logged(t, m))]
                ELSE inbox

\* conn.WriteJSON(m) returns; ConnMutex.Unlock()
EndWrite(t, c) ==
  /\ writing[t] = c
  /\ connMutex' = [connMutex EXCEPT ![c] = NoTask]
  /\ writing' = [writing EXCEPT ![t] = 0]

\* WriteJSON returns an error on a connection that is gone
WriteFails(c) == conn[c] # "open"

\* s.broadcast <- m returns once the channel has room
CanSend == Len(queue) < capacity

\* -------------------------------------------------------- HandleWebSocket
\* Connections are numbered in the order they are opened.
Join(c) ==
  /\ ~crashed
  /\ pc[H(c)] = "idle"
  /\ IF c = 1 THEN TRUE ELSE pc[H(c - 1)] # "idle"
  /\ CanLock
  /\ players' = (c :> NewPlayer) @@ players
  /\ isFirst' = [isFirst EXCEPT ![c] = Cardinality(DOMAIN players') = 1]
  /\ conn' = [conn EXCEPT ![c] = "open"]
  /\ pc' = [pc EXCEPT ![H(c)] = "welcome",
                      ![Sp(c)] = IF isFirst'[c] THEN "insert" ELSE @]
  /\ UNCHANGED <<inbox, watch, capacity, probe, enemies, writer, readers, queue, outbox, todo, bcMsg, writing,
                 connMutex, spI, cmds, ticks, crashed>>

HsWelcomeBegin(c) ==
  /\ ~crashed
  /\ pc[H(c)] = "welcome"
  /\ BeginWrite(H(c), c, PlayerMsg("player_join", c, players[c]))
  /\ UNCHANGED <<watch, capacity, probe, players, enemies, writer, readers, queue, pc, outbox, todo,
                 bcMsg, conn, isFirst, spI, cmds, ticks, crashed>>

HsWelcomeEnd(c) ==
  /\ ~crashed
  /\ pc[H(c)] = "welcome"
  /\ EndWrite(H(c), c)
  /\ pc' = [pc EXCEPT ![H(c)] = IF WriteFails(c) THEN "aborted" ELSE "rlock"]
  /\ UNCHANGED <<inbox, watch, capacity, probe, players, enemies, writer, readers, queue, outbox, todo, bcMsg,
                 conn, isFirst, spI, cmds, ticks, crashed>>

\* where the handshake goes once the loop over the other players is over
HsEnemyPhase(c) ==
  IF ~isFirst[c] /\ DOMAIN enemies # {}
    THEN <<"hsEnemies", DOMAIN enemies>>
    ELSE <<"hsRoom", {}>>

\* a handshake that goes straight to the enemies
SkipPlayers(c) == HsEnemyPhase(c)

\* where the handshake goes once it holds the read lock
HsPlayerPhase(c) ==
  IF DOMAIN players \ {c} # {}
    THEN <<"hsPlayers", DOMAIN players \ {c}>>
    ELSE HsEnemyPhase(c)

HsRLock(c) ==
  /\ ~crashed
  /\ pc[H(c)] = "rlock"
  /\ CanRLock
  /\ readers' = readers \cup {H(c)}
  /\ pc' = [pc EXCEPT ![H(c)] = HsPlayerPhase(c)[1]]
  /\ todo' = [todo EXCEPT ![H(c)] = HsPlayerPhase(c)[2]]
  /\ UNCHANGED <<inbox, watch, capacity, probe, players, enemies, writer, queue, outbox, bcMsg, writing,
                 connMutex, conn, isFirst, spI, cmds, ticks, crashed>>

HsPlayerBegin(c) ==
  /\ ~crashed
  /\ pc[H(c)] = "hsPlayers"
  /\ \E p \in todo[H(c)] :
       /\ todo' = [todo EXCEPT ![H(c)] = @ \ {p}]
       /\ BeginWrite(H(c), c, PlayerMsg("player_join", p, players[p]))
  /\ UNCHANGED <<watch, capacity, probe, players, enemies, writer, readers, queue, pc, outbox, bcMsg,
                 conn, isFirst, spI, cmds, ticks, crashed>>

HsPlayerEnd(c) ==
  /\ ~crashed
  /\ pc[H(c)] = "hsPlayers"
  /\ EndWrite(H(c), c)
  /\ IF todo[H(c)] = {}
       THEN /\ pc' = [pc EXCEPT ![H(c)] = HsEnemyPhase(c)[1]]
            /\ todo' = [todo EXCEPT ![H(c)] = HsEnemyPhase(c)[2]]
       ELSE UNCHANGED <<pc, todo>>
  /\ UNCHANGED <<inbox, watch, capacity, probe, players, enemies, writer, readers, queue, outbox, bcMsg, conn,
                 isFirst, spI, cmds, ticks, crashed>>

HsEnemyBegin(c) ==
  /\ ~crashed
  /\ pc[H(c)] = "hsEnemies"
  /\ \E e \in todo[H(c)] :
       /\ todo' = [todo EXCEPT ![H(c)] = @ \ {e}]
       /\ BeginWrite(H(c), c, EnemySnapshot("enemy_spawn", e, enemies[e]))
  /\ UNCHANGED <<watch, capacity, probe, players, enemies, writer, readers, queue, pc, outbox, bcMsg,
                 conn, isFirst, spI, cmds, ticks, crashed>>

HsEnemyEnd(c) ==
  /\ ~crashed
  /\ pc[H(c)] = "hsEnemies"
  /\ EndWrite(H(c), c)
  /\ pc' = [pc EXCEPT ![H(c)] = IF todo[H(c)] = {} THEN "hsRoom" ELSE @]
  /\ UNCHANGED <<inbox, watch, capacity, probe, players, enemies, writer, readers, queue, outbox, todo, bcMsg,
                 conn, isFirst, spI, cmds, ticks, crashed>>

HsRoomBegin(c) ==
  /\ ~crashed
  /\ pc[H(c)] = "hsRoom"
  /\ BeginWrite(H(c), c, RoomMsg)
  /\ UNCHANGED <<watch, capacity, probe, players, enemies, writer, readers, queue, pc, outbox, todo,
                 bcMsg, conn, isFirst, spI, cmds, ticks, crashed>>

\* the room write returns, s.mutex.RUnlock(), and the join broadcast is built
HsRoomEnd(c) ==
  /\ ~crashed
  /\ pc[H(c)] = "hsRoom"
  /\ EndWrite(H(c), c)
  /\ readers' = readers \ {H(c)}
  /\ outbox' = [outbox EXCEPT ![H(c)] = <<PlayerMsg("player_join", c, players[c])>>]
  /\ pc' = [pc EXCEPT ![H(c)] = "hsSend"]
  /\ UNCHANGED <<inbox, watch, capacity, probe, players, enemies, writer, queue, todo, bcMsg, conn, isFirst,
                 spI, cmds, ticks, crashed>>

\* s.broadcast <- player_join; go s.handlePlayerConnection(player)
HsSend(c) ==
  /\ ~crashed
  /\ pc[H(c)] = "hsSend"
  /\ CanSend
  /\ queue' = Append(queue, Head(outbox[H(c)]))
  /\ outbox' = [outbox EXCEPT ![H(c)] = Tail(@)]
  /\ pc' = [pc EXCEPT ![H(c)] = "read"]
  /\ UNCHANGED <<inbox, watch, capacity, probe, players, enemies, writer, readers, todo, bcMsg, writing,
                 connMutex, conn, isFirst, spI, cmds, ticks, crashed>>

\* the peer closes the connection, or the network drops it
ClientClose(c) ==
  /\ ~crashed
  /\ conn[c] = "open"
  /\ conn' = [conn EXCEPT ![c] = "closed"]
  /\ UNCHANGED <<inbox, watch, capacity, probe, players, enemies, writer, readers, queue, pc, outbox, todo,
                 bcMsg, writing, connMutex, isFirst, spI, cmds, ticks, crashed>>

\* ---------------------------------------------------------- handleBroadcast
\* a receive that takes the message enqueued last
ReceiveLast(q) == [msg |-> q[Len(q)], rest |-> SubSeq(q, 1, Len(q) - 1)]

\* msg := <-s.broadcast: the message enqueued first, and the channel after it
Receive(q) == [msg |-> Head(q), rest |-> Tail(q)]

BcRecv ==
  /\ ~crashed
  /\ pc[BC] = "recv"
  /\ queue # <<>>
  /\ bcMsg' = Receive(queue).msg
  /\ queue' = Receive(queue).rest
  /\ pc' = [pc EXCEPT ![BC] = "rlock"]
  /\ UNCHANGED <<inbox, watch, capacity, probe, players, enemies, writer, readers, outbox, todo, writing,
                 connMutex, conn, isFirst, spI, cmds, ticks, crashed>>

\* a fan-out that skips nobody
EveryPlayer(m) == DOMAIN players

\* the players the fan-out loop writes m to
BcRecipients(m) ==
  {p \in DOMAIN players : ~(m.type = "player_move" /\ p = m.pid)}

BcRLock ==
  /\ ~crashed
  /\ pc[BC] = "rlock"
  /\ CanRLock
  /\ IF BcRecipients(bcMsg) = {}
       THEN /\ pc' = [pc EXCEPT ![BC] = "recv"]
            /\ bcMsg' = NoMsg
            /\ UNCHANGED <<readers, todo>>
       ELSE /\ pc' = [pc EXCEPT ![BC] = "fanout"]
            /\ readers' = readers \cup {BC}
            /\ todo' = [todo EXCEPT ![BC] = BcRecipients(bcMsg)]
            /\ UNCHANGED bcMsg
  /\ UNCHANGED <<inbox, watch, capacity, probe, players, enemies, writer, queue, outbox, writing, connMutex,
                 conn, isFirst, spI, cmds, ticks, crashed>>

BcWriteBegin ==
  /\ ~crashed
  /\ pc[BC] = "fanout"
  /\ \E p \in todo[BC] :
       /\ BeginWrite(BC, p, bcMsg)
       /\ todo' = [todo EXCEPT ![BC] = @ \ {p}]
  /\ UNCHANGED <<watch, capacity, probe, players, enemies, writer, readers, queue, pc, outbox, bcMsg,
                 conn, isFirst, spI, cmds, ticks, crashed>>

\* a fan-out loop that gives up at the first write that fails
StopOnError(left, c) == IF WriteFails(c) THEN {} ELSE left

\* if err != nil { log.Printf(...) }: the players the loop has yet to visit
\* once the write to c has returned
BcRemaining(left, c) == left

BcWriteEnd ==
  /\ ~crashed
  /\ pc[BC] = "fanout"
  /\ writing[BC] # 0
  /\ EndWrite(BC, writing[BC])
  /\ todo' = [todo EXCEPT ![BC] = BcRemaining(@, writing[BC])]
  /\ IF todo'[BC] = {}
       THEN /\ readers' = readers \ {BC}
            /\ pc' = [pc EXCEPT ![BC] = "recv"]
            /\ bcMsg' = NoMsg
       ELSE UNCHANGED <<readers, pc, bcMsg>>
  /\ UNCHANGED <<inbox, watch, capacity, probe, players, enemies, writer, queue, outbox,
                 conn, isFirst, spI, cmds, ticks, crashed>>

\* ------------------------------------------------------ spawnInitialEnemies
\* The insertion takes no lock.  While another task is inside a loop over
\* s.enemies the Go runtime may abort the process (concurrent map iteration
\* and map write); otherwise the loop may or may not visit the new entry.
EnemyLoops ==
  {t \in Tasks : \/ t = AI /\ pc[AI] \in {"process", "send"}
                 \/ t[1] = "conn" /\ pc[t] = "hsEnemies"}

SpawnInsert(c) ==
  /\ ~crashed
  /\ pc[Sp(c)] = "insert"
  /\ LET id == EnemyId(c, spI[c])
         en == NewEnemy(spI[c])
     IN /\ enemies' = (id :> en) @@ enemies
        /\ outbox' = [outbox EXCEPT ![Sp(c)] = <<EnemySnapshot("enemy_spawn", id, en)>>]
        /\ \E seen \in SUBSET EnemyLoops :
             todo' = [t \in Tasks |-> IF t \in seen THEN todo[t] \cup {id} ELSE todo[t]]
  /\ pc' = [pc EXCEPT ![Sp(c)] = "send"]
  /\ UNCHANGED <<inbox, watch, capacity, probe, players, writer, readers, queue, bcMsg, writing, connMutex,
                 conn, isFirst, spI, cmds, ticks, crashed>>

SpawnInsertAbort(c) ==
  /\ ~crashed
  /\ pc[Sp(c)] = "insert"
  /\ EnemyLoops # {}
  /\ crashed' = TRUE
  /\ UNCHANGED <<inbox, watch, capacity, probe, players, enemies, writer, readers, queue, pc, outbox, todo,
                 bcMsg, writing, connMutex, conn, isFirst, spI, cmds, ticks>>

SpawnSend(c, count) ==
  /\ ~crashed
  /\ pc[Sp(c)] = "send"
  /\ CanSend
  /\ queue' = Append(queue, Head(outbox[Sp(c)]))
  /\ outbox' = [outbox EXCEPT ![Sp(c)] = Tail(@)]
  /\ spI' = [spI EXCEPT ![c] = @ + 1]
  /\ pc' = [pc EXCEPT ![Sp(c)] = IF spI'[c] < count THEN "insert" ELSE "done"]
  /\ UNCHANGED <<inbox, watch, capacity, probe, players, enemies, writer, readers, todo, bcMsg, writing,
                 connMutex, conn, isFirst, cmds, ticks, crashed>>

\* ------------------------------------------------------- updateEnemyTarget
\* The orders in which a range loop may visit the keys of a map.
Perms(S) ==
  {f \in [1..Cardinality(S) -> S] : \A i, j \in DOMAIN f : i # j => f[i] # f[j]}

\* a lookup that forgets the dead
InStore(p, ps) == p \in DOMAIN ps

\* player, exists := s.players[playerID]; exists && !player.Dead
Eligible(p, ps) == p \in DOMAIN ps /\ ~ps[p].dead

\* the loop of updateEnemyTarget over enemy.ThreatList visited in `order`
RECURSIVE ScanThreat(_, _, _, _, _, _)
ScanThreat(order, i, threat, ps, highestThreat, newTargetID) ==
  IF i > Len(order) THEN newTargetID
  ELSE IF Eligible(order[i], ps) /\ threat[order[i]] > highestThreat
    THEN ScanThreat(order, i + 1, threat, ps, threat[order[i]], order[i])
    ELSE ScanThreat(order, i + 1, threat, ps, highestThreat, newTargetID)

\* the targets updateEnemyTarget may set, over the orders of the map
TargetChoices(threat, ps) ==
  {ScanThreat(order, 1, threat, ps, 0, NoPlayer) : order \in Perms(DOMAIN threat)}

UpdateEnemyTarget(en, ps) ==
  {[en EXCEPT !.target = t] : t \in TargetChoices(en.threat, ps)}

\* an update of the threat table with the sign turned
LowerThreat(threat, p, d) ==
  IF p \in DOMAIN threat THEN [threat EXCEPT ![p] = @ - d] ELSE (p :> -d) @@ threat

\* enemy.ThreatList[p] += d
AddThreat(threat, p, d) ==
  IF p \in DOMAIN threat THEN [threat EXCEPT ![p] = @ + d] ELSE (p :> d) @@ threat

\* delete(enemy.ThreatList, p) for every p in gone
DeleteThreat(threat, gone) == [p \in DOMAIN threat \ gone |-> threat[p]]

\* ------------------------------------------------------------ handleMessage
\* conn.ReadJSON returns a message
Reading(c) ==
  /\ ~crashed
  /\ pc[H(c)] = "read"
  /\ conn[c] = "open"
  /\ cmds[c] # 0

HandleMove(c, pt) ==
  /\ Reading(c)
  /\ CanLock
  /\ LET v == CheckWallCollisionWithSliding(players[c].x, players[c].y,
                                            pt[1], pt[2], CreateDungeonRoom)
     IN players' = [players EXCEPT ![c].x = v[1], ![c].y = v[2]]
  /\ outbox' = [outbox EXCEPT ![H(c)] =
                  <<Msg("player_move", c, 0, 0, 0, pt[1], pt[2], FALSE)>>]
  /\ pc' = [pc EXCEPT ![H(c)] = "send"]
  /\ cmds' = [cmds EXCEPT ![c] = Spend(@)]
  /\ UNCHANGED <<inbox, watch, capacity, probe, enemies, writer, readers, queue, todo, bcMsg, writing,
                 connMutex, conn, isFirst, spI, ticks, crashed>>

\* any other action is passed on as it came
HandleAction(c) ==
  /\ Reading(c)
  /\ outbox' = [outbox EXCEPT ![H(c)] =
                  <<Msg("player_action", c, 0, 0, 0, 0, 0, FALSE)>>]
  /\ pc' = [pc EXCEPT ![H(c)] = "send"]
  /\ cmds' = [cmds EXCEPT ![c] = Spend(@)]
  /\ UNCHANGED <<inbox, watch, capacity, probe, players, enemies, writer, readers, queue, todo, bcMsg, writing,
                 connMutex, conn, isFirst, spI, ticks, crashed>>

\* a send made after the store mutex was released
Send(c) ==
  /\ ~crashed
  /\ pc[H(c)] = "send"
  /\ CanSend
  /\ queue' = Append(queue, Head(outbox[H(c)]))
  /\ outbox' = [outbox EXCEPT ![H(c)] = Tail(@)]
  /\ pc' = [pc EXCEPT ![H(c)] = "read"]
  /\ UNCHANGED <<inbox, watch, capacity, probe, players, enemies, writer, readers, todo, bcMsg, writing,
                 connMutex, conn, isFirst, spI, cmds, ticks, crashed>>

\* damage := 1; if attacker.Weapon != nil { damage = attacker.Weapon.Damage }
\* the damage of the weapon with no default for bare hands
WeaponOnly(pl) == pl.weapon

\* damage := 1; if attacker.Weapon != nil { damage = attacker.Weapon.Damage }
WeaponDamage(pl) == IF pl.weapon = NoWeapon THEN UnarmedDamage ELSE pl.weapon

\* a critical strike without its bonus
CritDoubled(base) == base * 2

\* critDamage := (baseDamage * 2) + 3
CritDamage(base) == base * 2 + CritBonus

\* the enemy update sent ahead of the attacker's update
EnemyUpdateFirst(own, enemyMsg) == <<enemyMsg>> \o own

\* the sends of a combat resolution, in the order the code makes them
CombatUpdates(own, enemyMsg) == own \o <<enemyMsg>>

\* a gain of rage with no upper limit
GainUnclamped(mana, gain) == mana + gain

\* target.Mana = min(target.MaxMana, target.Mana + rageGain)
GainRage(mana, gain) == Min(PlayerMaxMana, mana + gain)

\* an enemy kept in the store whatever its health
EnemyKept(e, en) ==
  [es |-> [enemies EXCEPT ![e] = en], msg |-> EnemySnapshot("enemy_update", e, en)]

\* an enemy announced dead at no health and left in the store
MarkedButKept(e, en) ==
  [es |-> [enemies EXCEPT ![e] = en],
   msg |-> IF en.health <= 0 THEN DeathMarker(e)
           ELSE EnemySnapshot("enemy_update", e, en)]

\* the enemy_update that ends a combat resolution, and the store after it
EnemyAfterHit(e, en) ==
  IF en.health <= 0
    THEN [es |-> [x \in DOMAIN enemies \ {e} |-> enemies[x]], msg |-> DeathMarker(e)]
    ELSE [es |-> [enemies EXCEPT ![e] = en], msg |-> EnemySnapshot("enemy_update", e, en)]

HandleCombat(c, e) ==
  /\ Reading(c)
  /\ CanLock
  /\ cmds' = [cmds EXCEPT ![c] = Spend(@)]
  /\ IF e \notin DOMAIN enemies
       THEN UNCHANGED <<players, enemies, writer, outbox, pc>>
       ELSE LET damage == WeaponDamage(players[c])
                gains == players[c].class = "warrior" /\ players[c].mana < PlayerMaxMana
                pl == IF gains
                        THEN [players[c] EXCEPT !.mana = GainRage(@, AttackRage)]
                        ELSE players[c]
                en1 == [enemies[e] EXCEPT
                          !.health = @ - damage,
                          !.threat = AddThreat(@, c, damage * ThreatScale)]
            IN /\ players' = [players EXCEPT ![c] = pl]
               /\ \E en2 \in UpdateEnemyTarget(en1, players') :
                    /\ enemies' = EnemyAfterHit(e, en2).es
                    /\ outbox' = [outbox EXCEPT ![H(c)] =
                         CombatUpdates(
                           IF gains THEN <<PlayerMsg("player_update", c, pl)>> ELSE <<>>,
                           EnemyAfterHit(e, en2).msg)]
               /\ writer' = H(c)
               /\ pc' = [pc EXCEPT ![H(c)] = "csSend"]
  /\ UNCHANGED <<inbox, watch, capacity, probe, readers, queue, todo, bcMsg, writing, connMutex, conn, isFirst,
                 spI, ticks, crashed>>

\* a gate that asks for the class only
WarriorOnly(pl) == pl.class = "warrior"

\* attacker.Class == "warrior" and attacker.Mana >= rageCost
CanStrike(pl) == pl.class = "warrior" /\ pl.mana >= CritCost

HandleCriticalStrike(c, e) ==
  /\ Reading(c)
  /\ CanLock
  /\ cmds' = [cmds EXCEPT ![c] = Spend(@)]
  /\ IF ~CanStrike(players[c]) \/ e \notin DOMAIN enemies
       THEN UNCHANGED <<players, enemies, writer, outbox, pc>>
       ELSE LET critDamage == CritDamage(WeaponDamage(players[c]))
                pl == [players[c] EXCEPT !.mana = @ - CritCost]
                en1 == [enemies[e] EXCEPT
                          !.health = @ - critDamage,
                          !.threat = AddThreat(@, c, critDamage * ThreatScale)]
            IN /\ players' = [players EXCEPT ![c] = pl]
               /\ \E en2 \in UpdateEnemyTarget(en1, players') :
                    /\ enemies' = EnemyAfterHit(e, en2).es
                    /\ outbox' = [outbox EXCEPT ![H(c)] =
                         CombatUpdates(<<PlayerMsg("player_update", c, pl)>>,
                                       EnemyAfterHit(e, en2).msg)]
               /\ writer' = H(c)
               /\ pc' = [pc EXCEPT ![H(c)] = "csSend"]
  /\ UNCHANGED <<inbox, watch, capacity, probe, readers, queue, todo, bcMsg, writing, connMutex, conn, isFirst,
                 spI, ticks, crashed>>

\* a send made inside the critical section; the deferred Unlock follows the last
CsSend(c) ==
  /\ ~crashed
  /\ pc[H(c)] = "csSend"
  /\ CanSend
  /\ queue' = Append(queue, Head(outbox[H(c)]))
  /\ outbox' = [outbox EXCEPT ![H(c)] = Tail(@)]
  /\ IF Tail(outbox[H(c)]) = <<>>
       THEN /\ writer' = NoTask
            /\ pc' = [pc EXCEPT ![H(c)] = "read"]
       ELSE UNCHANGED <<writer, pc>>
  /\ UNCHANGED <<inbox, watch, capacity, probe, players, enemies, readers, todo, bcMsg, writing, connMutex,
                 conn, isFirst, spI, cmds, ticks, crashed>>

\* ---------------------------------------------------- handlePlayerConnection
\* ReadJSON fails; the deferred function removes the player and closes
Disconnect(c) ==
  /\ ~crashed
  /\ pc[H(c)] = "read"
  /\ conn[c] = "closed"
  /\ CanLock
  /\ players' = [p \in DOMAIN players \ {c} |-> players[p]]
  /\ outbox' = [outbox EXCEPT ![H(c)] =
                  <<Msg("player_leave", c, 0, 0, 0, 0, 0, FALSE)>>]
  /\ pc' = [pc EXCEPT ![H(c)] = "leaveSend"]
  /\ UNCHANGED <<inbox, watch, capacity, probe, enemies, writer, readers, queue, todo, bcMsg, writing,
                 connMutex, conn, isFirst, spI, cmds, ticks, crashed>>

LeaveSend(c) ==
  /\ ~crashed
  /\ pc[H(c)] = "leaveSend"
  /\ CanSend
  /\ queue' = Append(queue, Head(outbox[H(c)]))
  /\ outbox' = [outbox EXCEPT ![H(c)] = Tail(@)]
  /\ pc' = [pc EXCEPT ![H(c)] = "gone"]
  /\ UNCHANGED <<inbox, watch, capacity, probe, players, enemies, writer, readers, todo, bcMsg, writing,
                 connMutex, conn, isFirst, spI, cmds, ticks, crashed>>

\* ------------------------------------------------------------ processEnemyAI
Dist2(ax, ay, bx, by) == (bx - ax) * (bx - ax) + (by - ay) * (by - ay)

\* one coordinate of (d/distance)*moveSpeed, rounded to a whole pixel
StepToward(d, distance) ==
  Sign(d) * ((MoveSpeed * Abs(d) + distance \div 2) \div distance)

\* the cleanup loop at the head of processEnemyAI
\* a threat table the tick leaves as it is
KeepThreat(threat, ps) == threat

\* delete(enemy.ThreatList, playerID) for the players that are gone or dead
PruneThreat(threat, ps) ==
  DeleteThreat(threat, {p \in DOMAIN threat : p \notin DOMAIN ps \/ ps[p].dead})

\* the players addRangeThreat adds threat for
InAggroRange(en, ps) ==
  {p \in DOMAIN ps :
     /\ ~ps[p].dead
     /\ Dist2(en.x, en.y, ps[p].x, ps[p].y) <= AggroRange * AggroRange}

RECURSIVE AddRangeThreatTo(_, _)
AddRangeThreatTo(threat, ps) ==
  IF ps = {} THEN threat
  ELSE LET p == CHOOSE q \in ps : TRUE
       IN AddRangeThreatTo(AddThreat(threat, p, RangeThreat), ps \ {p})

\* addRangeThreat: the last call of updateEnemyTarget decides the target
AddRangeThreat(en, ps) ==
  LET near == InAggroRange(en, ps)
      en1 == [en EXCEPT !.threat = AddRangeThreatTo(@, near)]
  IN IF near = {} THEN {en1} ELSE UpdateEnemyTarget(en1, ps)

\* an outcome of a step of the AI on one enemy
Outcome(en, ps, msgs) == [en |-> en, ps |-> ps, msgs |-> msgs]

MoveEnemyTowardTarget(e, en, target) ==
  LET dx == target.x - en.x
      dy == target.y - en.y
      distance == ISqrt(dx * dx + dy * dy)
      newX == en.x + StepToward(dx, distance)
      newY == en.y + StepToward(dy, distance)
      v == CheckWallCollisionWithSliding(en.x, en.y, newX, newY, CreateDungeonRoom)
      moved == [en EXCEPT !.x = v[1], !.y = v[2]]
  IN IF v[1] # en.x \/ v[2] # en.y
       THEN Outcome(moved, players, <<EnemySnapshot("enemy_update", e, moved)>>)
       ELSE Outcome(en, players, <<>>)

\* target.Health -= damage
DamagePlayer(health, damage) == health - damage

\* a hit that takes everything but marks nothing
MarkNothing(pl) == pl

\* if target.Health <= 0 { target.Health = 0; target.Dead = true }
MarkDead(pl) ==
  IF pl.health <= 0 THEN [pl EXCEPT !.health = 0, !.dead = TRUE] ELSE pl

\* a target that is never taken for dead
NeverDown(target) == FALSE

\* if target.Dead { return }
TargetDown(target) == target.dead

\* an enemy that need not wait between attacks
AlwaysReady(en) == TRUE

\* time.Since(enemy.LastAttack) > weaponDelay
ReadyToAttack(en) == en.since > EnemyWeaponDelay

AttemptEnemyAttack(en, p) ==
  LET target == players[p] IN
  IF TargetDown(target) \/ ~ReadyToAttack(en) THEN {Outcome(en, players, <<>>)}
  ELSE
    LET hit == [target EXCEPT
                  !.health = DamagePlayer(@, en.damage),
                  !.mana = IF target.class = "warrior" /\ @ < PlayerMaxMana
                             THEN GainRage(@, HitRage) ELSE @]
        en1 == [en EXCEPT !.since = 0]
        first == PlayerMsg("player_update", p, hit)
    IN IF hit.health <= 0
         THEN LET fallen == MarkDead(hit)
                  ps == [players EXCEPT ![p] = fallen]
                  en2 == [en1 EXCEPT !.threat = DeleteThreat(@, {p}),
                                     !.target = NoPlayer]
              IN {Outcome(en3, ps, <<first, PlayerMsg("player_update", p, fallen)>>) :
                    en3 \in UpdateEnemyTarget(en2, ps)}
         ELSE {Outcome(en1, [players EXCEPT ![p] = hit], <<first>>)}

\* an enemy that walks on however close it is
NeverInReach(en, target) == TRUE

\* distance > weaponRange, with weaponRange = enemy.Weapon.Range * 25
OutOfReach(en, target) ==
  Dist2(en.x, en.y, target.x, target.y)
    > (EnemyWeaponRange * RangeFactor) * (EnemyWeaponRange * RangeFactor)

\* processEnemyAI after addRangeThreat
Pursue(e, en) ==
  IF en.target = NoPlayer
    THEN {Outcome(en1, players, <<>>) : en1 \in UpdateEnemyTarget(en, players)}
  ELSE IF en.target \notin DOMAIN players
    THEN {Outcome(en1, players, <<>>) :
            en1 \in UpdateEnemyTarget([en EXCEPT !.target = NoPlayer], players)}
  ELSE IF OutOfReach(en, players[en.target])
    THEN {MoveEnemyTowardTarget(e, en, players[en.target])}
  ELSE AttemptEnemyAttack(en, en.target)

ProcessEnemyAI(e) ==
  UNION {Pursue(e, en) :
           en \in AddRangeThreat([enemies[e] EXCEPT !.threat = PruneThreat(@, players)],
                                 players)}

\* -------------------------------------------------------------- handleEnemyAI
AiTick ==
  /\ ~crashed
  /\ pc[AI] = "tick"
  /\ ticks # 0
  /\ CanLock
  /\ ticks' = Spend(ticks)
  /\ IF DOMAIN enemies = {}
       THEN UNCHANGED <<writer, todo, pc>>
       ELSE /\ writer' = AI
            /\ todo' = [todo EXCEPT ![AI] = DOMAIN enemies]
            /\ pc' = [pc EXCEPT ![AI] = "process"]
  /\ UNCHANGED <<inbox, watch, capacity, probe, players, enemies, readers, queue, outbox, bcMsg, writing,
                 connMutex, conn, isFirst, spI, cmds, crashed>>

\* where the AI goes when it has nothing left to send for the current enemy
AiResume(left) == IF left = {} THEN "tick" ELSE "process"

AiProcess ==
  /\ ~crashed
  /\ pc[AI] = "process"
  /\ \E e \in todo[AI] : \E o \in ProcessEnemyAI(e) :
       /\ enemies' = [enemies EXCEPT ![e] = o.en]
       /\ players' = o.ps
       /\ outbox' = [outbox EXCEPT ![AI] = o.msgs]
       /\ todo' = [todo EXCEPT ![AI] = @ \ {e}]
       /\ pc' = [pc EXCEPT ![AI] = IF o.msgs # <<>> THEN "send" ELSE AiResume(todo'[AI])]
       /\ writer' = IF pc'[AI] = "tick" THEN NoTask ELSE AI
  /\ UNCHANGED <<inbox, watch, capacity, probe, readers, queue, bcMsg, writing, connMutex, conn, isFirst, spI,
                 cmds, ticks, crashed>>

AiSend ==
  /\ ~crashed
  /\ pc[AI] = "send"
  /\ CanSend
  /\ queue' = Append(queue, Head(outbox[AI]))
  /\ outbox' = [outbox EXCEPT ![AI] = Tail(@)]
  /\ pc' = [pc EXCEPT ![AI] = IF outbox'[AI] # <<>> THEN "send" ELSE AiResume(todo[AI])]
  /\ writer' = IF pc'[AI] = "tick" THEN NoTask ELSE AI
  /\ UNCHANGED <<inbox, watch, capacity, probe, players, enemies, readers, todo, bcMsg, writing, connMutex,
                 conn, isFirst, spI, cmds, ticks, crashed>>

\* a second passes
Elapse ==
  /\ ~crashed
  /\ \E e \in DOMAIN enemies : enemies[e].since < Saturated
  /\ enemies' = [e \in DOMAIN enemies |->
                   [enemies[e] EXCEPT !.since = Min(Saturated, @ + 1)]]
  /\ UNCHANGED <<inbox, watch, capacity, probe, players, writer, readers, queue, pc, outbox, todo, bcMsg,
                 writing, connMutex, conn, isFirst, spI, cmds, ticks, crashed>>

\* ------------------------------------------------------------- handleRageDecay
Decays(pl) == pl.class = "warrior" /\ pl.mana > 0

\* a decay with no lower limit
DecayUnclamped(mana) == mana - RageDecay

\* player.Mana -= rageDecay; if player.Mana < 0 { player.Mana = 0 }
DecayRage(mana) ==
  IF mana - RageDecay < 0 THEN 0 ELSE mana - RageDecay

RageTick ==
  /\ ~crashed
  /\ pc[RG] = "tick"
  /\ CanLock
  /\ players' = [p \in DOMAIN players |->
                   IF Decays(players[p])
                     THEN [players[p] EXCEPT !.mana = DecayRage(@)]
                     ELSE players[p]]
  /\ LET changed == {p \in DOMAIN players : players'[p].mana # players[p].mana}
     IN IF changed = {}
          THEN UNCHANGED <<writer, outbox, pc>>
          ELSE /\ writer' = RG
               /\ pc' = [pc EXCEPT ![RG] = "send"]
               /\ \E order \in Perms(changed) :
                    outbox' = [outbox EXCEPT ![RG] =
                      [i \in 1..Len(order) |->
                         PlayerMsg("player_update", order[i], players'[order[i]])]]
  /\ UNCHANGED <<inbox, watch, capacity, probe, enemies, readers, queue, todo, bcMsg, writing, connMutex, conn,
                 isFirst, spI, cmds, ticks, crashed>>

RageSend ==
  /\ ~crashed
  /\ pc[RG] = "send"
  /\ CanSend
  /\ queue' = Append(queue, Head(outbox[RG]))
  /\ outbox' = [outbox EXCEPT ![RG] = Tail(@)]
  /\ IF Tail(outbox[RG]) = <<>>
       THEN /\ writer' = NoTask
            /\ pc' = [pc EXCEPT ![RG] = "tick"]
       ELSE UNCHANGED <<writer, pc>>
  /\ UNCHANGED <<inbox, watch, capacity, probe, players, enemies, readers, todo, bcMsg, writing, connMutex,
                 conn, isFirst, spI, cmds, ticks, crashed>>

\* ---------------------------------------------------------------- Spec
\* The connections against every task of the server, from its start, with
\* SpawnBound enemies per spawn task, MaxCmds inbound messages per connection
\* and MaxTicks ticks of the AI.
MovePoints == {<<210, 200>>}
AttackTargets == {1}

Next ==
  \/ \E c \in Conns :
       \/ Join(c) \/ HsWelcomeBegin(c) \/ HsWelcomeEnd(c) \/ HsRLock(c)
       \/ HsPlayerBegin(c) \/ HsPlayerEnd(c) \/ HsEnemyBegin(c) \/ HsEnemyEnd(c)
       \/ HsRoomBegin(c) \/ HsRoomEnd(c) \/ HsSend(c) \/ ClientClose(c)
       \/ SpawnInsert(c) \/ SpawnInsertAbort(c) \/ SpawnSend(c, SpawnBound)
       \/ \E pt \in MovePoints : HandleMove(c, pt)
       \/ \E e \in AttackTargets :
            HandleCombat(c, e) \/ HandleCriticalStrike(c, e)
       \/ HandleAction(c)
       \/ Send(c) \/ CsSend(c) \/ Disconnect(c) \/ LeaveSend(c)
  \/ BcRecv \/ BcRLock \/ BcWriteBegin \/ BcWriteEnd
  \/ AiTick \/ AiProcess \/ AiSend
  \/ RageTick \/ RageSend

Spec == Init /\ [][Next]_vars

\* ------------------------------------------------------- a server at rest
\* The server with the players ps and the enemies es in the store, the
\* connections of `gone` closed and cleaned up, every handshake and spawn task
\* over and every broadcast delivered.
AtRest(ps, es, gone) ==
  /\ players = ps
  /\ enemies = es
  /\ writer = NoTask
  /\ readers = {}
  /\ queue = <<>>
  /\ pc = [t \in Tasks |->
             IF t = BC THEN "recv"
             ELSE IF t \in {AI, RG} THEN "tick"
             ELSE IF t[1] = "conn"
               THEN (IF t[2] \in DOMAIN ps THEN "read"
                     ELSE IF t[2] \in gone THEN "gone" ELSE "idle")
             ELSE IF t = Sp(1) THEN "done" ELSE "off"]
  /\ outbox = [t \in Tasks |-> <<>>]
  /\ todo = [t \in Tasks |-> {}]
  /\ bcMsg = NoMsg
  /\ writing = [t \in Tasks |-> 0]
  /\ connMutex = [c \in Conns |-> NoTask]
  /\ conn = [c \in Conns |->
               IF c \in DOMAIN ps THEN "open"
               ELSE IF c \in gone THEN "closed" ELSE "none"]
  /\ isFirst = [c \in Conns |-> c = 1]
  /\ spI = [c \in Conns |-> IF c = 1 THEN NumInitialEnemies ELSE 0]
  /\ crashed = FALSE
  /\ inbox = [c \in Conns |-> <<>>]

\* the three enemies of spawnInitialEnemies, each with a weapon of `damage`
InitialEnemies(damage) ==
  [e \in 1..NumInitialEnemies |-> [NewEnemy(e - 1) EXCEPT !.damage = damage]]

\* a position within weapon range of the second enemy
NextToSecond == <<510, 350>>

\* ------------------------------------------------------------- SpecFight
\* One player walks up to the second enemy, attacks it and is attacked, up to
\* its death.  The weapon of an enemy is data
\* (enemy.Weapon.Damage): the spawn task hands out a damage of 10, which
\* divides the 100 health of a player, so the heavier weapon is what makes a
\* hit exceed the health that remains.
HeavyDamage == 35
FightCmds == 2
FightTicks == 10
WeaponDamages == {EnemyWeaponDamage, HeavyDamage}

InitFight ==
  /\ \E d \in WeaponDamages : AtRest((1 :> NewPlayer), InitialEnemies(d), {})
  /\ cmds = [c \in Conns |-> FightCmds]
  /\ ticks = FightTicks
  /\ watch = {}
  /\ capacity = QueueCap
  /\ probe = NoProbe

NextFight ==
  \/ HandleMove(1, NextToSecond) \/ HandleCombat(1, 2)
  \/ Send(1) \/ CsSend(1)
  \/ BcRecv \/ BcRLock \/ BcWriteBegin \/ BcWriteEnd
  \/ AiTick \/ AiProcess \/ AiSend \/ Elapse

SpecFight == InitFight /\ [][NextFight]_vars

\* -------------------------------------------------------------- SpecRage
\* One warrior, who has walked up to the second enemy, attacks two enemies for
\* as long as it likes, strikes critically, takes a hit and loses rage to the
\* decay ticker.
RageTicks == 1

InitRage ==
  /\ AtRest((1 :> [NewPlayer EXCEPT !.x = NextToSecond[1], !.y = NextToSecond[2]]),
            InitialEnemies(EnemyWeaponDamage), {})
  /\ cmds = [c \in Conns |-> IF c = 1 THEN Unlimited ELSE 0]
  /\ ticks = RageTicks
  /\ watch = {}
  /\ capacity = QueueCap
  /\ probe = NoProbe

NextRage ==
  \/ \E e \in {1, 2} : HandleCombat(1, e)
  \/ HandleCriticalStrike(1, 2)
  \/ CsSend(1)
  \/ BcRecv \/ BcRLock \/ BcWriteBegin \/ BcWriteEnd
  \/ AiTick \/ AiProcess \/ AiSend
  \/ RageTick \/ RageSend

SpecRage == InitRage /\ [][NextRage]_vars

\* ------------------------------------------------------------- SpecTarget
\* updateEnemyTarget on drawn inputs: every connection is alive, dead or gone,
\* the first enemy holds a threat table over the connections and a player that
\* left long ago, with a target left over from earlier, and the players
\* attack it.
ThreatValues == {20, 50, 1000}
Departed == MaxConns + 1

InitTarget ==
  /\ \E alive \in SUBSET Conns : \E dead \in SUBSET (Conns \ alive) :
     \E keys \in SUBSET (Conns \cup {Departed}) :
     \E th \in [keys -> ThreatValues] : \E tg \in keys \cup {NoPlayer} :
       AtRest([c \in alive \cup dead |->
                 IF c \in dead THEN [NewPlayer EXCEPT !.health = 0, !.dead = TRUE]
                               ELSE NewPlayer],
              [InitialEnemies(EnemyWeaponDamage) EXCEPT ![1].threat = th,
                                                        ![1].target = tg],
              Conns \ (alive \cup dead))
  /\ cmds = [c \in Conns |-> 1]
  /\ ticks = 0
  /\ watch = {}
  /\ capacity = QueueCap
  /\ probe = NoProbe

NextTarget ==
  \/ \E c \in Conns : HandleCombat(c, 1) \/ CsSend(c)
  \/ BcRecv \/ BcRLock \/ BcWriteBegin \/ BcWriteEnd

SpecTarget == InitTarget /\ [][NextTarget]_vars

\* ------------------------------------------------------------- SpecCombat
\* handleCombat and handleCriticalStrike on drawn inputs: an attacker of either
\* class, armed or not, with a rage on either side of the cost of a critical
\* strike and of the cap, a bystander, and a first enemy of drawn health.  The
\* attacker sends one command, at the first enemy or at an enemy that is not
\* in the store, and the inboxes keep the updates.
Classes == {"warrior", "mage"}
Rages == {0, CritCost - 1, CritCost, PlayerMaxMana - 2, PlayerMaxMana}
Weapons == {NoWeapon, PlayerWeaponDamage}
Healths == {1, 5, 6, 10, 13, 14, EnemyHealth}
MissingEnemy == NumInitialEnemies * MaxConns + 1
CombatTargets == {1, MissingEnemy}

InitCombat ==
  /\ \E cl \in Classes : \E r \in Rages : \E w \in Weapons : \E h \in Healths :
       AtRest((1 :> [NewPlayer EXCEPT !.class = cl, !.mana = r, !.weapon = w])
                @@ (2 :> NewPlayer),
              [InitialEnemies(EnemyWeaponDamage) EXCEPT ![1].health = h],
              {})
  /\ cmds = [c \in Conns |-> IF c = 1 THEN 1 ELSE 0]
  /\ ticks = 0
  /\ watch = {"player_update", "enemy_update"}
  /\ capacity = QueueCap
  /\ probe = NoProbe

NextCombat ==
  \/ \E e \in CombatTargets : HandleCombat(1, e) \/ HandleCriticalStrike(1, e)
  \/ CsSend(1)
  \/ BcRecv \/ BcRLock \/ BcWriteBegin \/ BcWriteEnd

SpecCombat == InitCombat /\ [][NextCombat]_vars

\* -------------------------------------------------------------- SpecLeave
\* Two players, the second in reach of the second enemy, attack once each,
\* and either may close its connection, while the AI ticks.
LeaveTicks == 2

InitLeave ==
  /\ AtRest((1 :> NewPlayer)
              @@ (2 :> [NewPlayer EXCEPT !.x = NextToSecond[1], !.y = NextToSecond[2]]),
            InitialEnemies(EnemyWeaponDamage), {})
  /\ cmds = [c \in Conns |-> 1]
  /\ ticks = LeaveTicks
  /\ watch = {}
  /\ capacity = QueueCap
  /\ probe = NoProbe

NextLeave ==
  \/ \E c \in Conns : \/ HandleCombat(c, 1) \/ CsSend(c)
                      \/ ClientClose(c) \/ Disconnect(c) \/ LeaveSend(c)
  \/ BcRecv \/ BcRLock \/ BcWriteBegin \/ BcWriteEnd
  \/ AiTick \/ AiProcess \/ AiSend

SpecLeave == InitLeave /\ [][NextLeave]_vars

\* --------------------------------------------------------------- SpecJoin
\* The connections arrive at a fresh server and go through the handshake
\* while the first enemy is spawned and the broadcaster fans out; the inboxes
\* keep what each connection is written.  Two enemies are spawned, so that
\* the second insert can fall into a handshake's loop over the enemies.
JoinSpawns == 2

InitJoin ==
  /\ players = <<>>
  /\ enemies = <<>>
  /\ writer = NoTask
  /\ readers = {}
  /\ queue = <<>>
  /\ pc = [t \in Tasks |->
             IF t = BC THEN "recv"
             ELSE IF t \in {AI, RG} THEN "tick"
             ELSE IF t[1] = "conn" THEN "idle" ELSE "off"]
  /\ outbox = [t \in Tasks |-> <<>>]
  /\ todo = [t \in Tasks |-> {}]
  /\ bcMsg = NoMsg
  /\ writing = [t \in Tasks |-> 0]
  /\ connMutex = [c \in Conns |-> NoTask]
  /\ conn = [c \in Conns |-> "none"]
  /\ isFirst = [c \in Conns |-> FALSE]
  /\ spI = [c \in Conns |-> 0]
  /\ cmds = [c \in Conns |-> 0]
  /\ ticks = 0
  /\ crashed = FALSE
  /\ inbox = [c \in Conns |-> <<>>]
  /\ watch = {"player_join", "enemy_spawn", "room_data"}
  /\ capacity = QueueCap
  /\ probe = NoProbe

NextJoin ==
  \/ \E c \in Conns :
       \/ Join(c) \/ HsWelcomeBegin(c) \/ HsWelcomeEnd(c) \/ HsRLock(c)
       \/ HsPlayerBegin(c) \/ HsPlayerEnd(c) \/ HsEnemyBegin(c) \/ HsEnemyEnd(c)
       \/ HsRoomBegin(c) \/ HsRoomEnd(c) \/ HsSend(c)
       \/ SpawnInsert(c) \/ SpawnInsertAbort(c) \/ SpawnSend(c, JoinSpawns)
  \/ BcRecv \/ BcRLock \/ BcWriteBegin \/ BcWriteEnd

SpecJoin == InitJoin /\ [][NextJoin]_vars

\* --------------------------------------------------------------- SpecCast
\* Two players at rest: a warrior with a little rage left, who moves and may
\* lose its connection, and a mage who attacks the first enemy.  The AI and
\* the rage decay tick, the channel holds two messages and the inboxes keep
\* every broadcast.
CastCap == 2
CastTicks == 1
CastRage == 2

\* where the client of c asks to go
CastPoint(c) == IF c = 1 THEN <<210, 200>> ELSE NextToSecond

InitCast ==
  /\ AtRest((1 :> [NewPlayer EXCEPT !.mana = CastRage])
              @@ (2 :> [NewPlayer EXCEPT !.class = "mage"]),
            InitialEnemies(EnemyWeaponDamage), {})
  /\ cmds = [c \in Conns |-> 1]
  /\ ticks = CastTicks
  /\ watch = {"player_move", "player_update", "enemy_update", "player_leave"}
  /\ capacity = CastCap
  /\ probe = NoProbe

NextCast ==
  \/ HandleMove(1, CastPoint(1)) \/ Send(1)
  \/ HandleCombat(2, 1) \/ CsSend(2)
  \/ ClientClose(1) \/ Disconnect(1) \/ LeaveSend(1)
  \/ BcRecv \/ BcRLock \/ BcWriteBegin \/ BcWriteEnd
  \/ AiTick \/ AiProcess \/ AiSend
  \/ RageTick \/ RageSend

SpecCast == InitCast /\ [][NextCast]_vars

\* --------------------------------------------------------------- SpecMove
\* The movement resolver on drawn inputs: a wall list, an old position and a
\* desired position on a grid that straddles the edges of the walls.  The
\* server resolves the move; the client predicts it and sends its prediction,
\* which the server resolves in turn from the same old position.
NoResult == <<>>

\* a lone pillar; positions at 90 and 130 touch it, the ones between overlap
Pillar == <<Wall(100, 100, 20, 20)>>

\* the wall lists with the coordinates drawn for each
Rooms ==
  { [walls |-> CreateDungeonRoom, grid |-> {25, 30, 40}],
    [walls |-> Pillar, grid |-> {90, 91, 130}],
    [walls |-> <<>>, grid |-> {0, 5}] }

MoveCases ==
  UNION { { [walls |-> r.walls, old |-> <<ox, oy>>, new |-> <<nx, ny>>,
             server |-> NoResult, client |-> NoResult, accepted |-> NoResult] :
              ox \in r.grid, oy \in r.grid, nx \in r.grid, ny \in r.grid } :
          r \in Rooms }

InitMove ==
  /\ AtRest((1 :> NewPlayer), InitialEnemies(EnemyWeaponDamage), {})
  /\ cmds = [c \in Conns |-> 0]
  /\ ticks = 0
  /\ watch = {}
  /\ capacity = QueueCap
  /\ probe \in MoveCases

\* handleMessage: game.CheckWallCollisionWithSliding(player.X, player.Y,
\* moveData.X, moveData.Y, s.room.Walls)
ServerResolves ==
  /\ probe # NoProbe /\ probe.server = NoResult
  /\ probe' = [probe EXCEPT !.server =
       CheckWallCollisionWithSliding(probe.old[1], probe.old[2],
                                     probe.new[1], probe.new[2], probe.walls)]
  /\ UNCHANGED <<players, enemies, writer, readers, queue, pc, outbox, todo, bcMsg,
                 writing, connMutex, conn, isFirst, spI, cmds, ticks, crashed, inbox,
                 watch, capacity>>

\* the client: g.checkWallCollisionWithSliding(localPlayer.X, localPlayer.Y,
\* newX, newY, walls)
ClientPredicts ==
  /\ probe # NoProbe /\ probe.client = NoResult
  /\ probe' = [probe EXCEPT !.client =
       checkWallCollisionWithSliding(probe.old[1], probe.old[2],
                                     probe.new[1], probe.new[2], probe.walls)]
  /\ UNCHANGED <<players, enemies, writer, readers, queue, pc, outbox, todo, bcMsg,
                 writing, connMutex, conn, isFirst, spI, cmds, ticks, crashed, inbox,
                 watch, capacity>>

\* the server is sent the client's prediction as the desired position
ServerAccepts ==
  /\ probe # NoProbe /\ probe.client # NoResult /\ probe.accepted = NoResult
  /\ probe' = [probe EXCEPT !.accepted =
       CheckWallCollisionWithSliding(probe.old[1], probe.old[2],
                                     probe.client[1], probe.client[2], probe.walls)]
  /\ UNCHANGED <<players, enemies, writer, readers, queue, pc, outbox, todo, bcMsg,
                 writing, connMutex, conn, isFirst, spI, cmds, ticks, crashed, inbox,
                 watch, capacity>>

NextMove == ServerResolves \/ ClientPredicts \/ ServerAccepts

SpecMove == InitMove /\ [][NextMove]_vars

\* -------------------------------------------------------------- SpecAggro
\* One tick of the AI over drawn stores.  Each connection is absent, alive
\* within the aggro radius of the first enemy, alive at the spawn point (out
\* of the radius of every enemy) or dead next to the second enemy, which
\* killed it.  The first enemy holds the threat the players built up while
\* they were alive and the target updateEnemyTarget chose then.
AggroTicks == 1
AggroThreats == {20, 50}

\* 60 pixels from the first enemy: within its aggro radius, out of its reach
NearFirst == <<260, 200>>

Places == {"absent", "near", "far", "dead"}

PlayerAt(place) ==
  IF place = "near" THEN [NewPlayer EXCEPT !.x = NearFirst[1], !.y = NearFirst[2]]
  ELSE IF place = "dead"
    THEN [NewPlayer EXCEPT !.x = NextToSecond[1], !.y = NextToSecond[2],
                           !.health = 0, !.dead = TRUE]
  ELSE NewPlayer

InitAggro ==
  /\ \E at \in [Conns -> Places] :
     LET here == {c \in Conns : at[c] # "absent"}
         ps == [c \in here |-> PlayerAt(at[c])]
     IN \E keys \in SUBSET here : \E th \in [keys -> AggroThreats] :
        \E tg \in TargetChoices(th, [c \in here |-> NewPlayer]) :
          AtRest(ps,
                 [InitialEnemies(EnemyWeaponDamage) EXCEPT ![1].threat = th,
                                                           ![1].target = tg],
                 Conns \ here)
  /\ cmds = [c \in Conns |-> 0]
  /\ ticks = AggroTicks
  /\ watch = {}
  /\ capacity = QueueCap
  /\ probe = NoProbe

NextAggro ==
  \/ AiTick \/ AiProcess \/ AiSend
  \/ BcRecv \/ BcRLock \/ BcWriteBegin \/ BcWriteEnd

SpecAggro == InitAggro /\ [][NextAggro]_vars

\* -------------------------------------------------------------- SpecDecay
\* handleRageDecay over drawn stores: two players, each a warrior or a mage
\* with little, some or full rage or mana, and the ticker of the decay.
DecayRages == {0, 1, 3, PlayerMaxMana}

InitDecay ==
  /\ \E cl \in [Conns -> Classes] : \E ma \in [Conns -> DecayRages] :
       AtRest([c \in Conns |-> [NewPlayer EXCEPT !.class = cl[c], !.mana = ma[c]]],
              InitialEnemies(EnemyWeaponDamage), {})
  /\ cmds = [c \in Conns |-> 0]
  /\ ticks = 0
  /\ watch = {}
  /\ capacity = QueueCap
  /\ probe = NoProbe

NextDecay ==
  \/ RageTick \/ RageSend
  \/ BcRecv \/ BcRLock \/ BcWriteBegin \/ BcWriteEnd

SpecDecay == InitDecay /\ [][NextDecay]_vars

\* ---------------------------------------------------------------- SpecHit
\* Two ticks of the AI around one player that stands next to the second
\* enemy, with drawn class and rage, alive after none, two or nine hits of
\* the enemies' weapon or just killed by the second enemy.  The first enemy has the player as target and is one step
\* short of its reach on its walk from its spawn point; the player sends one
\* command, an attack or a critical strike on the second enemy.
HitTicks == 2
HitCounts == {0, 2, 9}

\* the health of a player after some hits of the weapon, while it lives
HitHealths(damage) ==
  {h \in {PlayerHealth - k * damage : k \in HitCounts} : h > 0}
HitRages == {0, PlayerMaxMana - 2, PlayerMaxMana}

\* (200,200) + 142 steps of (2,1): 27 pixels from NextToSecond
OnItsWay == <<484, 342>>

\* the enemy with the player p as target, after attacks of p worth 2.0
Chasing(en, p) == [en EXCEPT !.target = p, !.threat = (p :> 2 * ThreatScale)]

\* the enemy that has just struck (enemy.LastAttack = time.Now())
JustStruck(en) == [en EXCEPT !.since = 0]

InitHit ==
  /\ \E cl \in Classes : \E ma \in HitRages : \E d \in WeaponDamages :
     \E h \in HitHealths(d) \cup {0} :
       LET pl == [NewPlayer EXCEPT !.x = NextToSecond[1], !.y = NextToSecond[2],
                                   !.class = cl, !.mana = ma,
                                   !.health = h, !.dead = (h = 0)]
           es == InitialEnemies(d)
           walked == [es[1] EXCEPT !.x = OnItsWay[1], !.y = OnItsWay[2]]
       IN AtRest((1 :> pl),
                 [es EXCEPT ![1] = Chasing(walked, 1),
                            ![2] = IF h = 0 THEN JustStruck(@) ELSE Chasing(@, 1)],
                 {})
  /\ cmds = [c \in Conns |-> IF c = 1 THEN 1 ELSE 0]
  /\ ticks = HitTicks
  /\ watch = {}
  /\ capacity = QueueCap
  /\ probe = NoProbe

NextHit ==
  \/ HandleCombat(1, 2) \/ HandleCriticalStrike(1, 2) \/ CsSend(1)
  \/ AiTick \/ AiProcess \/ AiSend \/ Elapse
  \/ BcRecv \/ BcRLock \/ BcWriteBegin \/ BcWriteEnd

SpecHit == InitHit /\ [][NextHit]_vars

\* ------------------------------------------------------------ SpecCadence
\* One player stands in reach of the second enemy, and of no other, for 22
\* ticks of the AI.  The ticker fires every 100 ms, but a tick starts when
\* the AI gets the store mutex and ends when the broadcaster has taken its
\* messages: the seconds pass between the ticks as they will.
CadenceTicks == 22

InitCadence ==
  /\ AtRest((1 :> [NewPlayer EXCEPT !.x = NextToSecond[1], !.y = NextToSecond[2]]),
            InitialEnemies(EnemyWeaponDamage), {})
  /\ cmds = [c \in Conns |-> 0]
  /\ ticks = CadenceTicks
  /\ watch = {}
  /\ capacity = QueueCap
  /\ probe = NoProbe

NextCadence ==
  \/ AiTick \/ AiProcess \/ AiSend \/ Elapse
  \/ BcRecv \/ BcRLock \/ BcWriteBegin \/ BcWriteEnd

SpecCadence == InitCadence /\ [][NextCadence]_vars

\* --------------------------------------------------------------- SpecWalk
\* One player sends two moves, to a place inside the left wall, to the
\* corner of the room where two walls meet, or to a free place within the
\* aggro radius of the first enemy, while the AI ticks twice.
WalkCmds == 2
WalkTicks == 2
WalkPoints == {<<5, 500>>, <<25, 25>>, NearFirst}

InitWalk ==
  /\ AtRest((1 :> NewPlayer), InitialEnemies(EnemyWeaponDamage), {})
  /\ cmds = [c \in Conns |-> IF c = 1 THEN WalkCmds ELSE 0]
  /\ ticks = WalkTicks
  /\ watch = {}
  /\ capacity = QueueCap
  /\ probe = NoProbe

NextWalk ==
  \/ \E pt \in WalkPoints : HandleMove(1, pt)
  \/ Send(1)
  \/ AiTick \/ AiProcess \/ AiSend
  \/ BcRecv \/ BcRLock \/ BcWriteBegin \/ BcWriteEnd

SpecWalk == InitWalk /\ [][NextWalk]_vars

\* ------------------------------------------------------------- SpecRejoin
\* The first player has come and gone and left the three enemies of its
\* spawn task in the store; the second connection arrives at the empty store
\* and goes through the handshake while the AI ticks once.
RejoinTicks == 1

InitRejoin ==
  /\ AtRest(<<>>, InitialEnemies(EnemyWeaponDamage), {1})
  /\ cmds = [c \in Conns |-> 0]
  /\ ticks = RejoinTicks
  /\ watch = {"enemy_spawn"}
  /\ capacity = QueueCap
  /\ probe = NoProbe

NextRejoin ==
  \/ Join(2) \/ HsWelcomeBegin(2) \/ HsWelcomeEnd(2) \/ HsRLock(2)
  \/ HsRoomBegin(2) \/ HsRoomEnd(2) \/ HsSend(2)
  \/ SpawnInsert(2) \/ SpawnInsertAbort(2) \/ SpawnSend(2, SpawnBound)
  \/ AiTick \/ AiProcess
  \/ BcRecv \/ BcRLock \/ BcWriteBegin \/ BcWriteEnd

SpecRejoin == InitRejoin /\ [][NextRejoin]_vars

\* --------------------------------------------------------------- SpecKill
\* Two warriors stand 60 pixels from the second enemy, which has 10 health
\* left: out of its reach, so that it walks, and within its aggro radius.
\* Both attack it, the first with the rage for a critical strike, while the
\* AI ticks; the inboxes keep the enemy_update messages.
KillCmds == 2
KillTicks == 1
NearSecond == <<560, 350>>

InitKill ==
  /\ AtRest([c \in Conns |->
               [NewPlayer EXCEPT !.x = NearSecond[1], !.y = NearSecond[2],
                                 !.mana = IF c = 1 THEN CritCost ELSE 0]],
            [InitialEnemies(EnemyWeaponDamage) EXCEPT ![2].health = 10],
            {})
  /\ cmds = [c \in Conns |-> IF c = 1 THEN KillCmds ELSE KillCmds - 1]
  /\ ticks = KillTicks
  /\ watch = {"enemy_update"}
  /\ capacity = QueueCap
  /\ probe = NoProbe

NextKill ==
  \/ \E c \in Conns : HandleCombat(c, 2) \/ CsSend(c)
  \/ HandleCriticalStrike(1, 2)
  \/ AiTick \/ AiProcess \/ AiSend
  \/ BcRecv \/ BcRLock \/ BcWriteBegin \/ BcWriteEnd

SpecKill == InitKill /\ [][NextKill]_vars

\* ------------------------------------------------------------- lock discipline
\* the next statement of t writes the players map, the enemies map or a field
\* of a stored entity
NextWritesStore(t) ==
  \/ t = AI /\ pc[AI] = "process"
  \/ t[1] = "spawn" /\ pc[t] = "insert"

\* the next statement of t reads or ranges over one of the maps
NextReadsStore(t) ==
  \/ t = BC /\ pc[BC] = "fanout"
  \/ t[1] = "conn" /\ pc[t] \in {"hsPlayers", "hsEnemies", "hsRoom"}

\* C1: every write to the store is made by a task holding the store mutex
\* exclusively, and every read by a task holding it at least shared.
StoreLockDiscipline ==
  \A t \in Tasks :
    /\ NextWritesStore(t) => writer = t
    /\ NextReadsStore(t) => (t \in readers \/ writer = t)

\* t is at a channel send and the channel is full
SendBlocked(t) == outbox[t] # <<>> /\ ~CanSend

\* C2: no task that holds the store mutex exclusively is ever blocked on the
\* broadcast channel while the broadcaster waits for the read lock.
NoLockedSendDeadlock ==
  ~(\E t \in Tasks : writer = t /\ SendBlocked(t) /\ pc[BC] = "rlock")

\* C3: no task holds the store mutex, shared or exclusive, while it is
\* inside a write to a client connection.
NoWriteUnderStoreLock ==
  \A t \in Tasks : writing[t] # 0 => (t \notin readers /\ writer # t)

\* C4: a task that is about to enqueue a broadcast is never blocked by a
\* full queue.
EnqueueNeverBlocks == \A t \in Tasks : ~SendBlocked(t)

\* C5: at most one task at a time is inside a write to a given connection.
OneWriterPerConn ==
  \A c \in Conns : Cardinality({t \in Tasks : writing[t] = c}) <= 1

\* the handshake of c is inside a write while the broadcaster, in its
\* fan-out loop, has only c left to write to
HandshakeMeetsFanout ==
  \E c \in Conns :
    /\ writing[H(c)] = c
    /\ pc[H(c)] \in {"welcome", "hsPlayers", "hsEnemies", "hsRoom"}
    /\ pc[BC] = "fanout" /\ todo[BC] = {c} /\ writing[BC] = 0

\* ----------------------------------------------------------------- targets
\* p is in the store and not marked dead
LivePlayer(p) == p \in DOMAIN players /\ ~players[p].dead

\* C6: whenever no task holds the store mutex exclusively, the target of every
\* enemy is empty or the ID of a player that is in the store and not dead.
TargetsAreLivePlayers ==
  writer = NoTask =>
    \A e \in DOMAIN enemies :
      enemies[e].target = NoPlayer \/ LivePlayer(enemies[e].target)

\* the entries of en's threat table with the greatest threat among those of
\* live players
HighestLive(en) ==
  {p \in DOMAIN en.threat :
     /\ LivePlayer(p)
     /\ \A q \in DOMAIN en.threat : LivePlayer(q) => en.threat[q] <= en.threat[p]}

\* the enemy a handler inside its critical section has just retargeted
Retargeted(c) == outbox[H(c)][Len(outbox[H(c)])].id

\* C7: after updateEnemyTarget the target of the enemy is an entry of its
\* threat table with the greatest threat among the players that are in the
\* store and not dead, and empty when there is none.
TargetIsHighestThreat ==
  \A c \in Conns :
    (pc[H(c)] = "csSend" /\ Retargeted(c) \in DOMAIN enemies) =>
      LET en == enemies[Retargeted(c)]
      IN IF HighestLive(en) = {} THEN en.target = NoPlayer
         ELSE en.target \in HighestLive(en)

\* the second player has attacked with P1 = 5.0 and P2 = 7.0 in the table next
\* to the 100.0 of a player that is gone, and is the target
DepartedOutranked ==
  /\ pc[H(2)] = "csSend" /\ Retargeted(2) = 1
  /\ DOMAIN enemies[1].threat = {1, 2, Departed}
  /\ enemies[1].threat[1] = 50 /\ enemies[1].threat[2] = 70
  /\ enemies[1].threat[Departed] = 1000
  /\ LivePlayer(1) /\ ~LivePlayer(Departed)
  /\ enemies[1].target = 2

\* ------------------------------------------------------------------ health
\* C8: whenever no task holds the store mutex exclusively, the health of
\* every player is between 0 and the maximum health.
HealthWithinBounds ==
  writer = NoTask =>
    \A p \in DOMAIN players :
      players[p].health >= 0 /\ players[p].health <= PlayerHealth

\* a player lies dead at health 0 under a weapon whose damage does not divide
\* the health of a player: the last hit took more than was left
KilledByOverkill ==
  /\ writer = NoTask
  /\ \E p \in DOMAIN players : \E e \in DOMAIN enemies :
       /\ players[p].dead /\ players[p].health = 0
       /\ PlayerHealth % enemies[e].damage # 0

\* -------------------------------------------------------------------- rage
\* C9: the rage of every player is between 0 and the maximum rage.
RageWithinBounds ==
  \A p \in DOMAIN players :
    players[p].mana >= 0 /\ players[p].mana <= PlayerMaxMana

\* the channel still holds the update that announced a rage within a basic
\* attack's gain of the maximum, and the attack handled next has left the
\* rage at the maximum
GainCutAtMax ==
  \E c \in Conns :
    /\ pc[H(c)] = "csSend" /\ Len(outbox[H(c)]) = 2
    /\ Head(outbox[H(c)]).type = "player_update"
    /\ players[c].mana = PlayerMaxMana
    /\ Len(queue) = 1
    /\ queue[1].type = "player_update" /\ queue[1].pid = c
    /\ queue[1].mana > PlayerMaxMana - AttackRage
    /\ queue[1].mana < PlayerMaxMana

\* ------------------------------------------------------------------ threat
\* C10: no step lowers a threat value that stays in a threat table, and no
\* threat value in a table is negative.
ThreatNeverLowered ==
  [][/\ \A e \in DOMAIN enemies \cap DOMAIN enemies' :
          \A p \in DOMAIN enemies[e].threat \cap DOMAIN enemies'[e].threat :
            enemies'[e].threat[p] >= enemies[e].threat[p]
     /\ \A e \in DOMAIN enemies' : \A p \in DOMAIN enemies'[e].threat :
          enemies'[e].threat[p] >= 0]_vars

\* a threat entry holds more than one attack's damage: it was raised by the
\* attack and by proximity
ThreatRaisedTwice ==
  \E e \in DOMAIN enemies : \E p \in DOMAIN enemies[e].threat :
    enemies[e].threat[p] > PlayerWeaponDamage * ThreatScale

\* ------------------------------------------------------------------ combat
\* the code turns a critical strike of c on e down
CritRejected(c, e) ==
  \/ players[c].class # "warrior"
  \/ players[c].mana < CritCost
  \/ e \notin DOMAIN enemies

\* C11: a critical strike by a non-warrior or with less rage than it costs,
\* and an attack or a critical strike at an enemy that is not in the store,
\* change no player and no enemy, remove no enemy and enqueue nothing.
RejectedCommandsChangeNothing ==
  [][\A c \in Conns : \A e \in CombatTargets :
       /\ (e \notin DOMAIN enemies /\ HandleCombat(c, e))
            => UNCHANGED <<players, enemies, queue, outbox>>
       /\ (CritRejected(c, e) /\ HandleCriticalStrike(c, e))
            => UNCHANGED <<players, enemies, queue, outbox>>]_vars

\* the attacker has spent its command and nothing has come of it: no enemy
\* holds threat, the channel and the broadcaster are idle, no inbox got a word
CommandTurnedDown ==
  /\ cmds[1] = 0 /\ pc[H(1)] = "read"
  /\ \A e \in DOMAIN enemies : enemies[e].threat = <<>>
  /\ queue = <<>> /\ bcMsg = NoMsg
  /\ \A c \in Conns : inbox[c] = <<>>
  /\ players[1].class = "warrior" /\ players[1].mana = CritCost - 1

\* the damage of one blow of pl as the rules state it
StatedDamage(pl) == IF pl.weapon = NoWeapon THEN 1 ELSE pl.weapon

\* the threat en holds for p, none being no threat
ThreatOf(en, p) == IF p \in DOMAIN en.threat THEN en.threat[p] ELSE 0

\* the messages of q that have the type ty, in order
OfType(q, ty) == SelectSeq(q, LAMBDA m : m.type = ty)

\* C12: a critical strike by a warrior with at least 30 rage on an enemy in
\* the store takes exactly 30 rage from the attacker, takes 2 * d + 3 health
\* from the enemy (d the weapon damage, 1 when unarmed), adds the same amount
\* to the attacker's threat on that enemy, and enqueues exactly one
\* player_update for the attacker and exactly one enemy_update.
StrikeTakesEffect ==
  [][\A c \in Conns : \A e \in CombatTargets :
       (~CritRejected(c, e) /\ HandleCriticalStrike(c, e)) =>
         LET d == 2 * StatedDamage(players[c]) + 3
             out == outbox'[H(c)]
         IN /\ players'[c].mana = players[c].mana - 30
            /\ IF e \in DOMAIN enemies'
                 THEN /\ enemies'[e].health = enemies[e].health - d
                      /\ ThreatOf(enemies'[e], c)
                           = ThreatOf(enemies[e], c) + d * ThreatScale
                 ELSE enemies[e].health - d <= 0
            /\ Len(out) = 2
            /\ Len(OfType(out, "player_update")) = 1
            /\ OfType(out, "player_update")[1].pid = c
            /\ OfType(out, "player_update")[1].mana = players'[c].mana
            /\ Len(OfType(out, "enemy_update")) = 1
            /\ OfType(out, "enemy_update")[1].id = e]_vars

\* rage 30 and weapon damage 5 against a fresh enemy: 13 damage, rage 0, and
\* the two updates are about to be sent
StruckForThirteen ==
  /\ pc[H(1)] = "csSend" /\ Len(outbox[H(1)]) = 2
  /\ players[1].mana = 0 /\ players[1].weapon = 5
  /\ 1 \in DOMAIN enemies
  /\ enemies[1].health = EnemyHealth - 13
  /\ ThreatOf(enemies[1], 1) = 13 * ThreatScale
  /\ outbox[H(1)][1].type = "player_update" /\ outbox[H(1)][1].mana = 0

\* C13: a basic attack with weapon damage d (1 when unarmed) on an enemy in
\* the store with health h > d leaves the enemy in the store with health
\* h - d, adds d to the attacker's threat on it and enqueues exactly one
\* enemy_update, the full snapshot of the enemy with health h - d.
AttackTakesEffect ==
  [][\A c \in Conns : \A e \in CombatTargets :
       (/\ e \in DOMAIN enemies
        /\ StatedDamage(players[c]) < enemies[e].health
        /\ HandleCombat(c, e)) =>
         LET d == StatedDamage(players[c])
             upd == OfType(outbox'[H(c)], "enemy_update")
         IN /\ e \in DOMAIN enemies'
            /\ enemies'[e].health = enemies[e].health - d
            /\ ThreatOf(enemies'[e], c) = ThreatOf(enemies[e], c) + d * ThreatScale
            /\ Len(upd) = 1
            /\ upd[1].id = e /\ ~upd[1].dead
            /\ upd[1].health = enemies[e].health - d
            /\ upd[1].x = enemies'[e].x /\ upd[1].y = enemies'[e].y]_vars

\* weapon damage 5 on an enemy of health 10: the enemy stands at 5 and the
\* one message left to send is its snapshot with health 5
HitFromTenToFive ==
  /\ pc[H(1)] = "csSend"
  /\ players[1].weapon = 5
  /\ 1 \in DOMAIN enemies /\ enemies[1].health = 5
  /\ ThreatOf(enemies[1], 1) = 5 * ThreatScale
  /\ Len(outbox[H(1)]) = 1
  /\ outbox[H(1)][1].type = "enemy_update" /\ outbox[H(1)][1].health = 5

\* the enemy_update a handler inside its critical section sends last
LastUpdate(c) == outbox[H(c)][Len(outbox[H(c)])]

\* C14: every enemy in the store has health of at least 1: a hit that brings
\* an enemy to 0 or below removes it in the same critical section, and the
\* enemy_update of that hit is the death marker {id, dead: true}, not a
\* snapshot.
DeadEnemiesRemoved ==
  /\ \A e \in DOMAIN enemies : enemies[e].health >= 1
  /\ \A c \in Conns :
       pc[H(c)] = "csSend" =>
         /\ LastUpdate(c).type = "enemy_update"
         /\ IF LastUpdate(c).id \in DOMAIN enemies
              THEN /\ ~LastUpdate(c).dead
                   /\ LastUpdate(c).health = enemies[LastUpdate(c).id].health
              ELSE /\ LastUpdate(c).dead
                   /\ LastUpdate(c).health = 0
                   /\ LastUpdate(c).x = 0 /\ LastUpdate(c).y = 0

\* a second attack for 5 on an enemy left at 5: the enemy is out of the
\* store and the message to send is its death marker
KilledAtZero ==
  /\ pc[H(1)] = "csSend"
  /\ players[1].weapon = 5
  /\ 1 \notin DOMAIN enemies
  /\ outbox[H(1)] = <<[type |-> "enemy_update", pid |-> NoPlayer, id |-> 1,
                       health |-> 0, mana |-> 0, x |-> 0, y |-> 0, dead |-> TRUE]>>

\* C15: every basic attack by a warrior on an enemy in the store sets the
\* attacker's rage to min(100, rage + 5) and enqueues a player_update with
\* the attacker's new state, whatever the rage was.
WarriorAttackUpdatesRage ==
  [][\A c \in Conns : \A e \in CombatTargets :
       (/\ e \in DOMAIN enemies
        /\ players[c].class = "warrior"
        /\ HandleCombat(c, e)) =>
         /\ players'[c].mana = Min(100, players[c].mana + 5)
         /\ \E i \in DOMAIN outbox'[H(c)] :
              /\ outbox'[H(c)][i].type = "player_update"
              /\ outbox'[H(c)][i].pid = c
              /\ outbox'[H(c)][i].mana = players'[c].mana]_vars

\* no message of type later comes before a message of type earlier in q
InOrder(q, earlier, later) ==
  \A i, j \in DOMAIN q : (q[i].type = later /\ q[j].type = earlier) => j < i

\* C16: a combat resolution that enqueues a player_update and an
\* enemy_update enqueues the player_update first, and every connection that
\* is written both is written the player_update first.
PlayerUpdateFirst ==
  /\ \A c \in Conns :
       /\ InOrder(outbox[H(c)], "player_update", "enemy_update")
       /\ InOrder(queue \o outbox[H(c)], "player_update", "enemy_update")
       /\ bcMsg.type = "enemy_update" =>
            /\ OfType(queue \o outbox[H(c)], "player_update") = <<>>
       /\ InOrder([i \in DOMAIN inbox[c] |-> inbox[c][i].msg],
                  "player_update", "enemy_update")
       /\ (bcMsg.type = "player_update" /\ c \in todo[BC]) =>
            OfType([i \in DOMAIN inbox[c] |-> inbox[c][i].msg], "enemy_update") = <<>>

\* the bystander has been written both updates of one resolution
BothUpdatesDelivered ==
  /\ Len(inbox[2]) = 2
  /\ inbox[2][1].msg.type = "player_update" /\ inbox[2][1].msg.pid = 1
  /\ inbox[2][2].msg.type = "enemy_update"

\* -------------------------------------------------------------- departure
\* the handler of c has returned: nothing more will run for this connection
HandlerEnded(c) == pc[H(c)] \in {"aborted", "gone"}

\* C17: every player registered in the store is removed from it, with a
\* player_leave enqueued, once its connection closes or fails, wherever after
\* the registration that happens: no player is still in the store when the
\* handler of its connection has ended.
NoPlayerLeftBehind ==
  \A c \in Conns : HandlerEnded(c) => c \notin DOMAIN players

\* no enemy holds threat for p or has p as its target
Forgotten(p) ==
  \A e \in DOMAIN enemies : p \notin DOMAIN enemies[e].threat /\ enemies[e].target # p

\* C18: when an AI tick ends, no enemy holds a threat entry for, or targets,
\* a player that was removed from the store before the tick began, and once
\* that is so no step brings such an entry or target back.
ThreatCleanedAfterLeave ==
  [][\A p \in Conns :
       (p \notin DOMAIN players /\ p \notin DOMAIN players') =>
         /\ (pc[AI] # "tick" /\ pc'[AI] = "tick") => Forgotten(p)'
         /\ Forgotten(p) => Forgotten(p)']_vars

\* the first player attacked, left, and a tick has since wiped the threat it
\* had earned
LeaverForgotten ==
  /\ 1 \notin DOMAIN players /\ pc[H(1)] = "gone"
  /\ cmds[1] = 0
  /\ pc[AI] = "tick" /\ writer = NoTask
  /\ Forgotten(1)
  /\ 2 \in DOMAIN enemies[1].threat

\* --------------------------------------------------------------- handshake
\* what the handler of c has itself written to the connection of c, in order
Direct(c) ==
  LET q == SelectSeq(inbox[c], LAMBDA r : r.via = "conn")
  IN [i \in DOMAIN q |-> q[i].msg]

\* the place of m in the handshake of c: the player's own join, the join of
\* another player, an enemy, the room
Stage(c, m) ==
  IF m.type = "player_join" THEN (IF m.pid = c THEN 1 ELSE 2)
  ELSE IF m.type = "enemy_spawn" THEN 3 ELSE 4

\* the direct writes to c so far are in handshake order, none twice
WritesInOrder(c) ==
  LET d == Direct(c)
  IN /\ d # <<>> => Stage(c, d[1]) = 1
     /\ \A i, j \in DOMAIN d :
          i < j => /\ Stage(c, d[i]) <= Stage(c, d[j])
                   /\ <<d[i].type, d[i].pid, d[i].id>> # <<d[j].type, d[j].pid, d[j].id>>
     /\ \A i \in DOMAIN d :
          /\ Stage(c, d[i]) = 2 => d[i].pid \in DOMAIN players
          /\ Stage(c, d[i]) = 3 => (~isFirst[c] /\ d[i].id \in DOMAIN enemies)
     /\ pc[H(c)] \in {"hsSend", "read"} => (d # <<>> /\ Stage(c, d[Len(d)]) = 4)

\* m is the join of c
JoinOf(c, m) == m.type = "player_join" /\ m.pid = c

\* the join broadcast of c is in the channel or past it
JoinEnqueued(c) ==
  \/ \E i \in DOMAIN queue : JoinOf(c, queue[i])
  \/ JoinOf(c, bcMsg)
  \/ \E p \in Conns : \E i \in DOMAIN inbox[p] :
       inbox[p][i].via = "broadcast" /\ JoinOf(c, inbox[p][i].msg)

\* C19: the handler of a new connection writes to it, in this order, the
\* player's own player_join, one player_join for each other player in the
\* store, unless the player is the first one enemy_spawn for each enemy in
\* the store, and room_data; the join broadcast is enqueued only after these
\* writes and the read loop starts only after that enqueue.
HandshakeInOrder ==
  [][\A c \in Conns :
       /\ WritesInOrder(c)'
       /\ JoinEnqueued(c)' => pc'[H(c)] = "read"
       /\ (pc[H(c)] # "read" /\ pc'[H(c)] = "read") =>
            (pc[H(c)] = "hsSend" /\ JoinOf(c, queue'[Len(queue')]))
       /\ (pc[H(c)] = "hsRoom" /\ pc'[H(c)] = "hsSend") =>
            {Direct(c)'[i].pid : i \in {k \in DOMAIN Direct(c)' :
                                          Stage(c, Direct(c)'[k]) = 2}}
              = DOMAIN players \ {c}
       /\ (pc[H(c)] # "hsEnemies" /\ pc'[H(c)] = "hsEnemies") =>
            todo'[H(c)] = DOMAIN enemies
       /\ pc[H(c)] = "hsEnemies" =>
            /\ \A e \in todo[H(c)] \ todo'[H(c)] :
                 /\ Len(Direct(c)') = Len(Direct(c)) + 1
                 /\ Direct(c)'[Len(Direct(c)')].type = "enemy_spawn"
                 /\ Direct(c)'[Len(Direct(c)')].id = e
            /\ pc'[H(c)] # "hsEnemies" => todo[H(c)] = {}
       /\ (pc[H(c)] \in {"rlock", "hsPlayers"} /\ pc'[H(c)] = "hsRoom") =>
            (isFirst[c] \/ DOMAIN enemies = {})]_vars

\* the second connection has been written its own join, the join of the
\* first player, the two enemies and the room, and is in its read loop
FullHandshake ==
  /\ pc[H(2)] = "read"
  /\ Len(Direct(2)) = 5
  /\ JoinOf(2, Direct(2)[1]) /\ JoinOf(1, Direct(2)[2])
  /\ {Direct(2)[3].id, Direct(2)[4].id} = DOMAIN enemies
  /\ Cardinality(DOMAIN enemies) = 2
  /\ Direct(2)[5].type = "room_data"

\* the player_join messages written to c by any task, in order
JoinsSeen(c) == SelectSeq(inbox[c], LAMBDA r : r.msg.type = "player_join")

\* C20: the first player_join written to a connection is the join of that
\* connection's own player.
OwnJoinFirst ==
  \A c \in Conns : JoinsSeen(c) # <<>> => JoinsSeen(c)[1].msg.pid = c

\* ---------------------------------------------------------------- fan-out
\* the messages the broadcaster has written to c, in order
Cast(c) ==
  LET q == SelectSeq(inbox[c], LAMBDA r : r.via = "broadcast")
  IN [i \in DOMAIN q |-> q[i].msg]

\* C21: the player_join broadcast of a new player is written to the other
\* players only, never to the connection of the new player, which is
\* therefore written its own player_join exactly once, by its handler.
JoinNotEchoed ==
  \A c \in Conns :
    /\ \A i \in DOMAIN Cast(c) : ~JoinOf(c, Cast(c)[i])
    /\ Len(SelectSeq(inbox[c], LAMBDA r : JoinOf(c, r.msg))) <= 1

\* m is a movement of c
OwnMove(c, m) == m.type = "player_move" /\ m.pid = c

\* the message the broadcaster has written to c last
LastCast(c) == IF Cast(c) = <<>> THEN NoMsg ELSE Cast(c)[Len(Cast(c))]

Theirs(c, q) == SelectSeq(q, LAMBDA m : ~OwnMove(c, m))

\* what c has been written by the broadcaster, followed by what it is still
\* to be written: the message being fanned out and the channel
Stream(c) ==
  Cast(c) \o Theirs(c, (IF pc[BC] = "rlock" \/ (pc[BC] = "fanout" /\ c \in todo[BC])
                          THEN <<bcMsg>> ELSE <<>>) \o queue)

\* b is a, or a with one message added at its end
Grown(a, b) == a = b \/ (Len(b) = Len(a) + 1 /\ SubSeq(b, 1, Len(a)) = a)

\* no two messages come in one order in a and in the other order in b
SameOrder(a, b) ==
  \A i, j \in DOMAIN a : \A k, l \in DOMAIN b :
    (i < j /\ a[i] = b[k] /\ a[j] = b[l]) => k < l

\* C23: every client is written the broadcasts in the order in which they
\* were enqueued: what it has been written and what is still queued for it
\* only ever grows at the end; and no two clients are written the same two
\* messages in opposite orders.
BroadcastInOrder ==
  [][/\ \A c \in Conns :
          (c \in DOMAIN players' /\ conn'[c] = "open") => Grown(Stream(c), Stream(c)')
     /\ \A a, b \in Conns : SameOrder(Cast(a)', Cast(b)')]_vars

\* the channel is full and both clients have been written the same two
\* messages
TwoMessagesToBoth ==
  /\ Len(queue) = CastCap
  /\ \E i, j \in DOMAIN Cast(1) : \E k, l \in DOMAIN Cast(2) :
       i < j /\ k < l /\ Cast(1)[i] = Cast(2)[k] /\ Cast(1)[j] = Cast(2)[l]

\* C24: when the broadcaster's write to a connection fails, the player stays
\* in the store, the loop goes on with the players it has yet to visit and
\* then with the next message, nothing else is stopped, and every other
\* player in the store is still written the message.
FailedWriteStopsNothing ==
  [][/\ (/\ pc[BC] = "fanout" /\ writing[BC] # 0 /\ writing'[BC] = 0
         /\ conn[writing[BC]] # "open") =>
          /\ players' = players /\ writing[BC] \in DOMAIN players'
          /\ todo'[BC] = todo[BC]
          /\ pc'[BC] = IF todo[BC] = {} THEN "recv" ELSE "fanout"
          /\ ~crashed' /\ writer' = writer
          /\ pc'[AI] = pc[AI] /\ pc'[RG] = pc[RG]
     /\ (/\ pc[BC] = "fanout" /\ pc'[BC] = "recv"
         /\ \E f \in DOMAIN players : conn[f] # "open") =>
          \A p \in DOMAIN players' :
            (conn'[p] = "open" /\ ~OwnMove(p, bcMsg)) => LastCast(p)' = bcMsg]_vars

\* the first player's connection is gone and the player is still in the
\* store; the second has been written a message the first has not, the
\* broadcaster has nothing left to do, and both tickers have run
WrittenPastFailure ==
  /\ conn[1] = "closed" /\ 1 \in DOMAIN players
  /\ pc[BC] = "recv" /\ queue = <<>>
  /\ \E i \in DOMAIN Cast(2) :
       /\ ~OwnMove(1, Cast(2)[i])
       /\ \A k \in DOMAIN Cast(1) : Cast(1)[k] # Cast(2)[i]
  /\ ticks = 0 /\ pc[AI] = "tick"
  /\ players[1].mana = 0 /\ pc[RG] = "tick"

\* ------------------------------------------------------------------- spawn
\* the connections whose join started a spawnInitialEnemies goroutine
Spawners == {c \in Conns : pc[Sp(c)] # "off"}

\* C27: the initial enemies are spawned at most once in the life of the
\* server, whatever the joins and disconnects: at most one join ever starts
\* the spawn task, so no more than one cohort of enemies is ever created.
CohortSpawnedOnce == Cardinality(Spawners) <= 1

\* ---------------------------------------------------------------- movement
\* the box of half-extent 10 around pos overlaps one of the walls, strictly
\* on all four sides
Overlaps(pos, walls) ==
  \E i \in DOMAIN walls :
    /\ pos[1] - 10 < walls[i].x + walls[i].width
    /\ pos[1] + 10 > walls[i].x
    /\ pos[2] - 10 < walls[i].y + walls[i].height
    /\ pos[2] + 10 > walls[i].y

ClientAgreesWithServer ==
  probe # NoProbe =>
    /\ (probe.server # NoResult /\ probe.client # NoResult) => probe.server = probe.client
    /\ probe.accepted # NoResult => probe.accepted = probe.client

\* the client predicted a horizontal slide and the server, sent that
\* prediction, put the player there
SlideAccepted ==
  /\ probe # NoProbe /\ probe.accepted # NoResult /\ probe.server # NoResult
  /\ probe.client = <<probe.new[1], probe.old[2]>>
  /\ probe.client # probe.new /\ probe.client # probe.old
  /\ probe.accepted = probe.client

\* the resolver as the rules state it
Reference(old, new, walls) ==
  IF ~Overlaps(new, walls) THEN new
  ELSE IF ~Overlaps(<<new[1], old[2]>>, walls) THEN <<new[1], old[2]>>
  ELSE IF ~Overlaps(<<old[1], new[2]>>, walls) THEN <<old[1], new[2]>>
  ELSE old

\* C28: the resolver returns the desired position if it overlaps no wall,
\* else the horizontal slide if that overlaps none, else the vertical slide
\* if that overlaps none, else the old position.
ResolverIsReference ==
  (probe # NoProbe /\ probe.server # NoResult) =>
    probe.server = Reference(probe.old, probe.new, probe.walls)

\* the desired position is in the pillar and both slides are free: the
\* horizontal one is taken
HorizontalSlideWins ==
  /\ probe # NoProbe /\ probe.server # NoResult
  /\ Overlaps(probe.new, probe.walls)
  /\ ~Overlaps(<<probe.new[1], probe.old[2]>>, probe.walls)
  /\ ~Overlaps(<<probe.old[1], probe.new[2]>>, probe.walls)
  /\ probe.old[1] # probe.new[1] /\ probe.old[2] # probe.new[2]
  /\ probe.server = <<probe.new[1], probe.old[2]>>

\* ------------------------------------------------------------------- aggro
\* the AI is about to run processEnemyAI on e, or has just run it
AiTurn(e) == pc[AI] = "process" /\ e \in todo[AI]

\* C29: an enemy whose target is a player marked dead has, at the end of its
\* next AI tick, another target or none, whether or not a live player is
\* within its aggro radius.
DeadTargetDropped ==
  [][\A e \in DOMAIN enemies : \A p \in DOMAIN players :
       (/\ AiTurn(e) /\ e \notin todo'[AI]
        /\ enemies[e].target = p /\ players[p].dead) => enemies'[e].target # p]_vars

\* the enemy as addRangeThreat finds it, the threat of the gone and the dead
\* deleted
Pruned(e) == [enemies[e] EXCEPT !.threat = PruneThreat(@, players)]

\* what a player gains in a tick: the increment if it is alive and within
\* distance 100 of the enemy, nothing otherwise
DueGain(en, p) ==
  IF /\ ~players[p].dead
     /\ Dist2(en.x, en.y, players[p].x, players[p].y) <= 100 * 100
    THEN RangeThreat ELSE 0

\* C30: in each AI tick, for each enemy, every player that is not dead and
\* within distance 100 gains the same fixed threat, the others gain none, and
\* after this step the target of the enemy is the player of highest threat
\* among the live players of its table as recomputed in this tick, none if
\* there is no such player.
RangeThreatThenRetarget ==
  \A e \in DOMAIN enemies :
    AiTurn(e) =>
      \A en \in AddRangeThreat(Pruned(e), players) :
        /\ \A p \in DOMAIN players :
             ThreatOf(en, p) = ThreatOf(Pruned(e), p) + DueGain(en, p)
        /\ IF HighestLive(en) = {} THEN en.target = NoPlayer
           ELSE en.target \in HighestLive(en)

\* -------------------------------------------------------------- rage decay
\* the player_update messages for p among msgs
UpdatesFor(p, msgs) ==
  {i \in DOMAIN msgs : msgs[i].type = "player_update" /\ msgs[i].pid = p}

\* C34: on a rage-decay tick every warrior with rage r > 0 ends with rage
\* max(0, r - 2) and exactly one player_update is enqueued for it; warriors
\* with rage 0 and non-warriors keep every field and nothing is enqueued for
\* them.
DecayTouchesRagingWarriors ==
  [][RageTick =>
       \A p \in DOMAIN players :
         IF players[p].class = "warrior" /\ players[p].mana > 0
           THEN /\ players'[p] =
                     [players[p] EXCEPT !.mana = IF @ - 2 > 0 THEN @ - 2 ELSE 0]
                /\ Cardinality(UpdatesFor(p, outbox'[RG])) = 1
           ELSE /\ players'[p] = players[p]
                /\ UpdatesFor(p, outbox'[RG]) = {}]_vars

\* the decay has cut the rage of a warrior at 0 and its update waits to be
\* sent, while a mage keeps its mana and has no update
RageCutAtZero ==
  /\ pc[RG] = "send"
  /\ \E p, q \in DOMAIN players :
       /\ players[p].class = "warrior" /\ players[p].mana = 0
       /\ UpdatesFor(p, outbox[RG]) # {}
       /\ players[q].class = "mage" /\ players[q].mana = 1
       /\ UpdatesFor(q, outbox[RG]) = {}

\* --------------------------------------------------------------- enemy hits
\* the player_update messages the AI has yet to enqueue for the hit it made
HitUpdates == {i \in DOMAIN outbox[AI] : outbox[AI][i].type = "player_update"}

Strikes(c) ==
  \E e \in DOMAIN enemies : HandleCombat(c, e) \/ HandleCriticalStrike(c, e)

\* C39: an attack or critical strike command from a player that is marked
\* dead leaves the health and the threat table of every enemy unchanged,
\* removes no enemy and enqueues no enemy_update.
DeadPlayersHarmless ==
  [][\A c \in DOMAIN players :
       (players[c].dead /\ Strikes(c)) =>
         /\ enemies' = enemies
         /\ \A i \in DOMAIN outbox'[H(c)] :
              outbox'[H(c)][i].type # "enemy_update"]_vars

\* every player in the store is marked dead
AllDead == \A q \in DOMAIN players : players[q].dead

\* C40: a player marked dead stays dead with health 0 for as long as it is in
\* the store; a tick of the AI changes neither its health nor its rage, adds
\* no threat for it, and with nobody alive leaves the time of the last attack
\* of every enemy as it was.
DeathIsAbsorbing ==
  /\ [](\A p \in DOMAIN players : players[p].dead => players[p].health = 0)
  /\ [][\A p \in DOMAIN players :
          players[p].dead =>
            /\ p \in DOMAIN players' => players'[p].dead /\ players'[p].health = 0
            /\ AiProcess =>
                 /\ players'[p] = players[p]
                 /\ \A e \in DOMAIN enemies :
                      /\ ThreatOf(enemies'[e], p) <= ThreatOf(enemies[e], p)
                      /\ AllDead => enemies'[e].since = enemies[e].since]_vars

\* the first enemy has walked up to the body of its target and was ready to
\* attack during the last tick
StoodOverTheDead ==
  /\ ticks = 0 /\ pc[AI] = "tick"
  /\ 1 \in DOMAIN players /\ players[1].dead
  /\ enemies[1].target = 1
  /\ enemies[1].since > EnemyWeaponDelay
  /\ Dist2(enemies[1].x, enemies[1].y, players[1].x, players[1].y) <= 25 * 25

\* ------------------------------------------------------------ enemy moves
\* the enemy_update snapshots of e among msgs
SnapshotsOf(e, msgs) ==
  {i \in DOMAIN msgs : msgs[i].type = "enemy_update" /\ msgs[i].id = e /\ ~msgs[i].dead}

\* the point a step of length 2 from (x, y) toward pl ends at
StepOfTwo(x, y, pl) ==
  LET distance == ISqrt(Dist2(x, y, pl.x, pl.y))
  IN <<x + StepToward(pl.x - x, distance), y + StepToward(pl.y - y, distance)>>

\* C31: in a tick of the AI the position of an enemy changes only when it has
\* a target in the store that is farther away than its weapon range of 25;
\* the new position is the result of the resolver for a step of length 2
\* toward the target, and a snapshot with that position is enqueued if and
\* only if the position changed.  An enemy with no target, or whose target
\* is in reach, keeps its position and enqueues no snapshot.
EnemyMovesOnlyToFarTarget ==
  [][\A e \in DOMAIN enemies :
       (AiTurn(e) /\ e \notin todo'[AI]) =>
         LET old == enemies[e]
             new == enemies'[e]
             moved == new.x # old.x \/ new.y # old.y
             far(t) == Dist2(old.x, old.y, players[t].x, players[t].y) > 25 * 25
         IN /\ moved =>
                 /\ new.target \in DOMAIN players /\ far(new.target)
                 /\ <<new.x, new.y>> =
                      Reference(<<old.x, old.y>>,
                                StepOfTwo(old.x, old.y, players[new.target]),
                                CreateDungeonRoom)
            /\ moved <=> SnapshotsOf(e, outbox'[AI]) # {}
            /\ \A i \in SnapshotsOf(e, outbox'[AI]) :
                 <<outbox'[AI][i].x, outbox'[AI][i].y>> = <<new.x, new.y>>
            /\ (\/ new.target = NoPlayer
                \/ /\ players' = players /\ new.target \in DOMAIN players
                   /\ ~far(new.target)) => ~moved]_vars

\* the first enemy has taken the step that brings its target into reach and
\* its snapshot waits to be sent, while the third, with no target, is where
\* it was spawned
SteppedIntoReach ==
  /\ pc[AI] = "send" /\ SnapshotsOf(1, outbox[AI]) # {}
  /\ <<enemies[1].x, enemies[1].y>> = <<486, 343>>
  /\ enemies[3].target = NoPlayer
  /\ <<enemies[3].x, enemies[3].y>> = <<800, 500>>

\* ----------------------------------------------------------- enemy attacks
\* the enemy e, in its turn of the tick, takes health from the player p
Damages(e, p) ==
  /\ AiTurn(e) /\ e \notin todo'[AI]
  /\ p \in DOMAIN players'
  /\ players'[p].health < players[p].health

\* e damages p only if p is its target when it decides, p is alive and in
\* reach, and the last attack of e is more than the delay of 2 s ago; the
\* attack becomes its last attack
DamagesOnlyWhenDue ==
  [][\A e \in DOMAIN enemies : \A p \in DOMAIN players :
       Damages(e, p) =>
         /\ \E en \in AddRangeThreat(Pruned(e), players) : en.target = p
         /\ ~players[p].dead
         /\ Dist2(enemies[e].x, enemies[e].y, players[p].x, players[p].y) <= 25 * 25
         /\ enemies[e].since > 2
         /\ enemies'[e].since = 0]_vars

\* C32, as stated: an enemy damages a player only in a tick where the player
\* is its target, alive and in reach and its last attack is more than the
\* weapon delay of 2 s ago, and two damaging attacks of one enemy are more
\* than 20 ticks of the AI apart.  Only the second enemy reaches player 1
\* here: when the player has lost the health of two hits, more than 20 ticks
\* have been run.
AttacksTwentyTicksApart ==
  /\ DamagesOnlyWhenDue
  /\ [](\A p \in DOMAIN players :
          players[p].health <= PlayerHealth - 2 * EnemyWeaponDamage =>
            CadenceTicks - ticks > 20)

\* C32: an enemy damages a player only in a tick where the player is its
\* target, alive and in reach and its last attack is more than the weapon
\* delay of 2 s ago; the attack is then its last attack, so that two damaging
\* attacks of one enemy are more than one weapon delay apart.
AttacksOneDelayApart ==
  DamagesOnlyWhenDue /\ [][Elapse => \A e \in DOMAIN enemies :
                              enemies'[e].since >= enemies[e].since]_vars

\* the second enemy has struck the player for the second time
StruckTwice ==
  /\ 1 \in DOMAIN players
  /\ players[1].health = PlayerHealth - 2 * EnemyWeaponDamage
  /\ enemies[2].since = 0

\* -------------------------------------------------------------- positions
\* C36: the x and y of every player_move the server enqueues are the position
\* it stored for that player as the result of the move, also when the
\* requested position overlaps a wall.
MoveCarriesStoredPosition ==
  \A c \in DOMAIN players :
    \A i \in DOMAIN outbox[H(c)] :
      outbox[H(c)][i].type = "player_move" =>
        <<outbox[H(c)][i].x, outbox[H(c)][i].y>> = <<players[c].x, players[c].y>>

\* C37: in every reachable state no stored position of a player or of an
\* enemy overlaps a wall of the room.
StoredPositionsClear ==
  /\ \A c \in DOMAIN players :
       ~Overlaps(<<players[c].x, players[c].y>>, CreateDungeonRoom)
  /\ \A e \in DOMAIN enemies :
       ~Overlaps(<<enemies[e].x, enemies[e].y>>, CreateDungeonRoom)

\* the player went up to the first enemy, which stepped toward it, and then
\* asked for a place inside the left wall and was slid along it
SlidAlongTheWall ==
  /\ 1 \in DOMAIN players
  /\ <<players[1].x, players[1].y>> = <<NearFirst[1], 500>>
  /\ <<enemies[1].x, enemies[1].y>> # <<200, 200>>

\* ------------------------------------------------------------ enemy list
\* c has been written an enemy_spawn for the enemy e
ToldOf(c, e) ==
  \E i \in DOMAIN inbox[c] :
    inbox[c][i].msg.type = "enemy_spawn" /\ inbox[c][i].msg.id = e

\* C35: when the join handshake of a player completes, the player has been
\* written an enemy_spawn, by the handshake or by the broadcaster, for every
\* enemy that is in the store at that moment.
ToldOfEveryEnemy ==
  [][\A c \in Conns :
       HsSend(c) => \A e \in DOMAIN enemies' : ToldOf(c, e)']_vars

\* ----------------------------------------------------------- death markers
\* the broadcaster holds a message it has yet to write to c
Unwritten(c) ==
  bcMsg # NoMsg /\ (pc[BC] = "rlock" \/ (pc[BC] = "fanout" /\ c \in todo[BC]))

\* every message enqueued so far or about to be, in the order of the queue,
\* as the connected player c sees it: what c was written, what the
\* broadcaster holds for it, the queue, and what the task that holds the
\* store mutex has yet to send
Trail(c) ==
  [i \in DOMAIN inbox[c] |-> inbox[c][i].msg]
    \o (IF Unwritten(c) THEN <<bcMsg>> ELSE <<>>)
    \o queue
    \o (IF writer = NoTask THEN <<>> ELSE outbox[writer])

\* C38: for each enemy ID at most one death marker is ever enqueued, and no
\* enemy_update for that ID is enqueued after it.
DeathMarkerIsLast ==
  \A c \in DOMAIN players :
    \A i, j \in DOMAIN Trail(c) :
      (/\ i < j
       /\ Trail(c)[i].type = "enemy_update" /\ Trail(c)[i].dead)
        => ~(Trail(c)[j].type = "enemy_update" /\ Trail(c)[j].id = Trail(c)[i].id)

\* every command and the tick have run; the first player was written a
\* snapshot of the second enemy on its walk and then its death marker
WalkedThenKilled ==
  /\ \A c \in Conns : cmds[c] = 0 /\ pc[H(c)] = "read"
  /\ ticks = 0
  /\ \E i, j \in DOMAIN inbox[1] :
       /\ i < j
       /\ inbox[1][i].msg.id = 2 /\ ~inbox[1][i].msg.dead
       /\ inbox[1][j].msg.id = 2 /\ inbox[1][j].msg.dead

====
